---- MODULE Spec2Model ----
(***************************************************************************)
(* Model of the Capterra scraper (src/app): the request endpoint that fans *)
(* a batch of URLs out over asyncio tasks, and the load controller that    *)
(* clicks "Show more" until the review list is exhausted.                  *)
(*                                                                         *)
(* The specifications share the variables:                                 *)
(*   SpecBatch    one request handled by scrape_capterra_endpoint, with    *)
(*                the tasks it creates interleaved at their await points;  *)
(*   SpecBudget   the same for a batch of well-formed URLs, with time      *)
(*                running out on a target;                                 *)
(*   SpecSteps    two targets whose click loops run side by side;          *)
(*   SpecLoad     one run of _load_all_capterra_reviews_driverless, step   *)
(*                by step, against a page and a driver that may misbehave; *)
(*   SpecScrape   that run and the entry scrape_capterra_async makes of    *)
(*                it;                                                      *)
(*   SpecClick    one call of try_click_element(always_js_click=True);     *)
(*   SpecOverlay  two calls in a row of handle_specific_overlay_popup;     *)
(*   SpecDates    the same URL list requested twice with different dates.  *)
(*                                                                         *)
(* Three more specifications model the sibling variants kept next to       *)
(* src/app:                                                                *)
(*   SpecPool     the thread-pool endpoint of src/v4.py;                   *)
(*   SpecV4       the click loop of its Selenium loader (FairSpecV4 with   *)
(*                fairness);                                               *)
(*   SpecPopups   one call of attempt_to_close_popups_capterra of v4.py,   *)
(*                v1.py or v7.py.                                          *)
(***************************************************************************)
EXTENDS Integers, Sequences, FiniteSets, TLC

(***************************************************************************)
(* Bounds of the model.                                                    *)
(***************************************************************************)
\* longest URL list of a request
MaxUrls == 3
\* most reviews the extractor finds in one snapshot (batch specification)
MaxReviews == 1
\* most clicks on which an ordinary page of SpecLoad still grows
MaxGrowths == 2
\* most driver calls of one run that fail or read stale (SpecLoad)
MaxFaults == 1
MaxButtons == 2
MaxClicks == 2
\* growth steps of the page that never runs dry within the click ceiling
LongRun == 251
\* longest list of answers the page of SpecV4 has planned for the clicks
MaxActivations == 5
\* most close-button patterns the handler of SpecPopups goes through
MaxPatterns == 2

VARIABLES
    \* ---- batch (endpoint) state
    request,        \* the ScrapeRequest: urls, start_date_str, end_date_str
    epc,            \* position of scrape_capterra_endpoint
    results,        \* the endpoint's results dict: url -> entry
    response,       \* what the endpoint gave back to the client
    tasks,          \* the asyncio tasks, in creation order
    browser,        \* per task: the Chrome process it launched
    \* ---- the page and the driver, as one loader run sees them (SpecLoad)
    page,           \* what the site serves: fixed for the run
    dom,            \* review cards now in the DOM
    pending,        \* cards requested by a click and not yet rendered
    faults,         \* driver calls that may still fail or read stale
    clean,          \* no call has failed and no growth came too late so far
    chrome,         \* the Chrome process of this run
    quit_calls,     \* how often driver.quit() has been invoked
    overlay_calls,  \* how often handle_specific_overlay_popup has been invoked
    \* ---- locals of _load_all_capterra_reviews_driverless
    lpc,
    driver,
    page_source_result,
    total_reviews_on_site,
    num_clicks_needed,
    click_num,
    show_more_clicks,
    current_review_count_dom,
    clicked,        \* what try_click_element returned last ("unset" before)
    \* ---- locals of async_wait_until_reviews_load
    elapsed,        \* time.monotonic() - start_time, in 1/100 s
    \* ---- the helpers of selenium_helpers.py, called on their own
    tce,            \* one call of try_click_element(always_js_click=True)
    ovl,            \* two calls in a row of handle_specific_overlay_popup
    \* ---- the same URL list sent twice (SpecDates)
    twin,           \* the first request's tasks and answer, the second's dates
    \* ---- src/v4.py: the thread-pool endpoint (SpecPool)
    pool,           \* the executor: CPU count, and per submitted target its worker
    \* ---- src/v4.py: the click loop of the Selenium loader (SpecV4)
    v4,             \* the page's plan, the loop's locals and its position
    \* ---- attempt_to_close_popups_capterra of v4.py, v1.py, v7.py (SpecPopups)
    pop             \* the page's popups and windows, the handler's position

batchVars == <<request, epc, results, response, tasks, browser>>

pageVars == <<page, dom, pending, faults, clean, chrome, quit_calls, overlay_calls>>

localVars == <<lpc, driver, page_source_result, total_reviews_on_site,
               num_clicks_needed, click_num, show_more_clicks,
               current_review_count_dom, clicked, elapsed>>

helperVars == <<tce, ovl, twin, pool, v4, pop>>

loadVars == <<pageVars, localVars, helperVars>>

vars == <<batchVars, loadVars>>

(***************************************************************************)
(* Strings.  A URL is a sequence of tokens; a substring test is a test for *)
(* a contiguous run of tokens.                                             *)
(***************************************************************************)
Contains(s, sub) ==
    \E i \in 0..(Len(s) - Len(sub)) :
        \A j \in 1..Len(sub) : s[i + j] = sub[j]

UrlA  == <<"https://www.", "capterra.com", "/p/", "135003/Slack", "/reviews", "/">>
UrlB  == <<"https://www.", "capterra.com", "/p/", "56808/Zoom", "/reviews", "/">>
UrlNoReviews == <<"https://www.", "capterra.com", "/p/", "135003/Slack", "/">>
UrlOtherSite == <<"https://www.", "example.com", "/reviews", "/">>

Urls == {UrlA, UrlB, UrlNoReviews, UrlOtherSite}

\* capterra.py:30  "capterra.com/p/" in s_url and "/reviews" in s_url
IsValidCapterraUrl_either(u) ==
    Contains(u, <<"capterra.com", "/p/">>) \/ Contains(u, <<"/reviews">>)

IsValidCapterraUrl(u) ==
    Contains(u, <<"capterra.com", "/p/">>) /\ Contains(u, <<"/reviews">>)

(***************************************************************************)
(* Dates.  A date string is absent (None), or a text <<year, month, day>>; *)
(* the empty text is the empty string.  strptime(.., "%Y-%m-%d") raises    *)
(* ValueError on a text that is no calendar date.                          *)
(***************************************************************************)
NoDate    == [given |-> FALSE, text |-> <<>>]
EmptyDate == [given |-> TRUE,  text |-> <<>>]
DateStr(y, m, d) == [given |-> TRUE, text |-> <<y, m, d>>]

IsLeap(y) == (y % 4 = 0 /\ y % 100 # 0) \/ y % 400 = 0

DaysInMonth(y, m) ==
    IF m = 2 THEN (IF IsLeap(y) THEN 29 ELSE 28)
    ELSE IF m \in {4, 6, 9, 11} THEN 30 ELSE 31

\* Python truthiness of an Optional[str]
Truthy(s) == s.given /\ s.text # <<>>

\* datetime.strptime(s, "%Y-%m-%d") does not raise
ParsesAsDate(s) ==
    /\ Len(s.text) = 3
    /\ s.text[1] \in 1..9999
    /\ s.text[2] \in 1..12
    /\ s.text[3] \in 1..DaysInMonth(s.text[1], s.text[2])

\* date.__gt__
DateAfter(a, b) ==
    \/ a[1] > b[1]
    \/ a[1] = b[1] /\ a[2] > b[2]
    \/ a[1] = b[1] /\ a[2] = b[2] /\ a[3] > b[3]

StartDates == {NoDate, EmptyDate, DateStr(2024, 2, 30), DateStr(2024, 1, 5), DateStr(2024, 3, 1)}
EndDates   == {NoDate, DateStr(2024, 13, 1), DateStr(2024, 1, 5), DateStr(2024, 2, 29)}

\* capterra.py:19-21
StartDateMalformed(req) ==
    Truthy(req.start_date_str) /\ ~ParsesAsDate(req.start_date_str)

\* capterra.py:22-24
EndDateMalformed(req) ==
    Truthy(req.end_date_str) /\ ~ParsesAsDate(req.end_date_str)

\* capterra.py:25  start_date_filter_dt and end_date_filter_dt and start > end
DatesInverted_flipped(req) ==
    /\ Truthy(req.start_date_str)
    /\ Truthy(req.end_date_str)
    /\ DateAfter(req.end_date_str.text, req.start_date_str.text)

DatesInverted(req) ==
    /\ Truthy(req.start_date_str)
    /\ Truthy(req.end_date_str)
    /\ DateAfter(req.start_date_str.text, req.end_date_str.text)

(***************************************************************************)
(* Result entries.                                                         *)
(***************************************************************************)
NoPage == "None"
Page   == "html"
\* _get_total_reviews_on_site_selenium returned None
NoTotal == -1
\* page_source_result is None (SpecLoad, where a snapshot is its card count)
NoSnapshot == -1

ErrorEntry(msg) == [status |-> "error", message |-> msg, reviews |-> 0]

\* capterra_service.py:40-52 and 68-77: the dict scrape_capterra_async returns
ScrapeEntry_always_success(page_source, n) ==
    IF page_source = NoPage
    THEN ErrorEntry("Failed to load page content")
    ELSE [status |-> "success", message |-> "", reviews |-> n]

ScrapeEntry(page_source, n) ==
    IF page_source = NoPage
    THEN ErrorEntry("Failed to load page content")
    ELSE [status  |-> IF n > 0 THEN "success" ELSE "no_reviews_found",
          message |-> "",
          reviews |-> n]

\* capterra.py:28-31: the entries the validation loop writes
InvalidEntries_none(urls) ==
    [u \in {} |-> ErrorEntry("Invalid Capterra URL format")]

InvalidEntries(urls) ==
    [u \in {urls[i] : i \in {j \in 1..Len(urls) : ~IsValidCapterraUrl(urls[j])}}
        |-> ErrorEntry("Invalid Capterra URL format")]

\* capterra.py:28-30: valid_urls_for_processing
ValidUrlsForProcessing(urls) ==
    SelectSeq(urls, IsValidCapterraUrl)

\* capterra.py:35: one task per valid url, not yet started
NewTask(u) ==
    [url |-> u, pc |-> "created", driver |-> FALSE, page_source |-> NoPage,
     raised |-> FALSE, entry |-> ErrorEntry(""), overdue |-> FALSE,
     step |-> "idle", clicks |-> 0]

(***************************************************************************)
(* scrape_capterra_endpoint, up to its await of asyncio.gather.            *)
(***************************************************************************)
Respond(kind, detail) == [kind |-> kind, detail |-> detail]

Reject(detail) ==
    /\ response' = Respond("http400", detail)
    /\ epc' = "rejected"
    /\ UNCHANGED <<request, results, tasks, browser, loadVars>>

RejectStartDate ==
    /\ epc = "start"
    /\ StartDateMalformed(request)
    /\ Reject("Invalid start_date_str format")

RejectEndDate ==
    /\ epc = "start"
    /\ ~StartDateMalformed(request)
    /\ EndDateMalformed(request)
    /\ Reject("Invalid end_date_str format")

DatesAccepted(req) ==
    /\ ~StartDateMalformed(req)
    /\ ~EndDateMalformed(req)
    /\ ~DatesInverted(req)

RejectInvertedDates ==
    /\ epc = "start"
    /\ ~StartDateMalformed(request)
    /\ ~EndDateMalformed(request)
    /\ DatesInverted(request)
    /\ Reject("Start date cannot be after end date")

RejectNoUrls ==
    /\ epc = "start"
    /\ DatesAccepted(request)
    /\ request.urls = <<>>
    /\ Reject("No URLs provided")

\* nothing valid: the request is rejected, entries or not
ReturnInvalidOnly_rejects ==
    /\ epc = "start"
    /\ DatesAccepted(request)
    /\ request.urls # <<>>
    /\ ValidUrlsForProcessing(request.urls) = <<>>
    /\ Reject("No valid Capterra URLs provided")

\* capterra.py:32-34: nothing valid; the invalid entries are the answer when
\* there are any (if results: return results), else HTTP 400
ReturnInvalidOnly ==
    /\ epc = "start"
    /\ DatesAccepted(request)
    /\ request.urls # <<>>
    /\ ValidUrlsForProcessing(request.urls) = <<>>
    /\ IF DOMAIN InvalidEntries(request.urls) # {}
       THEN /\ results' = InvalidEntries(request.urls)
            /\ response' = Respond("map", "")
            /\ epc' = "returned"
            /\ UNCHANGED <<request, tasks, browser, loadVars>>
       ELSE Reject("No valid Capterra URLs provided")

\* capterra.py:27-37: validation, then create_task for every valid url
CreateTasks ==
    /\ epc = "start"
    /\ DatesAccepted(request)
    /\ request.urls # <<>>
    /\ ValidUrlsForProcessing(request.urls) # <<>>
    /\ results' = InvalidEntries(request.urls)
    /\ tasks' = [i \in 1..Len(ValidUrlsForProcessing(request.urls)) |->
                    NewTask(ValidUrlsForProcessing(request.urls)[i])]
    /\ browser' = [i \in 1..Len(ValidUrlsForProcessing(request.urls)) |-> "none"]
    /\ epc' = "gather"
    /\ UNCHANGED <<request, response, loadVars>>

(***************************************************************************)
(* One task: scrape_capterra_async around                                   *)
(* _load_all_capterra_reviews_driverless.  A task runs without interruption *)
(* between two awaits; the steps below are cut at the awaits that open and  *)
(* close the browser.  The click loop itself is the subject of SpecLoad;    *)
(* here it is the step that ends with or without a page snapshot.           *)
(***************************************************************************)
TaskIds == DOMAIN tasks

SetTask(i, t) == tasks' = [tasks EXCEPT ![i] = t]

\* capterra_service.py:47-77: what the coroutine ends with once the loader has
\* returned page_source: no page -> the error dict; else the extractor runs
\* (it has no catch-all: it may raise) and the status follows the count
TaskOutcomes(page_source) ==
    IF page_source = NoPage
    THEN {[raised |-> FALSE, entry |-> ScrapeEntry(NoPage, 0)]}
    ELSE {[raised |-> FALSE, entry |-> ScrapeEntry(page_source, n)] : n \in 0..MaxReviews}
         \cup {[raised |-> TRUE, entry |-> ErrorEntry("")]}

\* the coroutine returns or raises; its locals end with it
EndTask(i, o) ==
    SetTask(i, [tasks[i] EXCEPT !.pc = "done", !.driver = FALSE, !.page_source = NoPage,
                                !.raised = o.raised, !.entry = o.entry])

\* selenium_helpers.py:13-32 called from capterra_loader.py:95.
\*   "ok"       Chrome launched, stealth script applied, driver returned
\*   "launch"   Chrome(...) raised: no process, RuntimeError
\*   "stealth"  Chrome launched, execute_cdp_cmd raised: RuntimeError, the
\*              process stays behind and the loader's driver stays None
\* After a RuntimeError the loader runs to its return with no further await
\* (227-242: driver is None, nothing to quit) and the task ends.
PrepareOutcomes == {"ok", "launch", "stealth"}

TaskPrepareDriver_restarts(i) ==
    /\ epc = "gather"
    /\ tasks[i].pc = "created"
    /\ \E o \in PrepareOutcomes :
        /\ browser' = [browser EXCEPT ![i] = IF o = "launch" THEN "none" ELSE "running"]
        /\ IF o = "ok"
           THEN SetTask(i, [tasks[i] EXCEPT !.driver = TRUE, !.pc = "loading"])
           ELSE UNCHANGED tasks
    /\ UNCHANGED <<request, epc, results, response, loadVars>>

TaskPrepareDriver(i) ==
    /\ epc = "gather"
    /\ tasks[i].pc = "created"
    /\ \E o \in PrepareOutcomes :
        /\ browser' = [browser EXCEPT ![i] = IF o = "launch" THEN "none" ELSE "running"]
        /\ IF o = "ok"
           THEN SetTask(i, [tasks[i] EXCEPT !.driver = TRUE, !.pc = "loading"])
           ELSE \E r \in TaskOutcomes(NoPage) : EndTask(i, r)
    /\ UNCHANGED <<request, epc, results, response, loadVars>>

\* capterra_loader.py:99-225: navigation, container check, click loop and the
\* snapshot; any exception on the way leaves page_source_result None (227-232)
TaskLoadPage(i) ==
    /\ epc = "gather"
    /\ tasks[i].pc = "loading"
    /\ tasks[i].step = "idle"
    /\ \E src \in {NoPage, Page} :
        SetTask(i, [tasks[i] EXCEPT !.page_source = src, !.pc = "finally"])
    /\ UNCHANGED <<request, epc, results, response, browser, loadVars>>

\* the trigger is activated without the wait of the last activation having
\* returned
TaskClick_during_poll(i) ==
    /\ epc = "gather"
    /\ tasks[i].pc = "loading"
    /\ tasks[i].clicks < MaxClicks
    /\ SetTask(i, [tasks[i] EXCEPT !.step = "polling", !.clicks = @ + 1])
    /\ UNCHANGED <<request, epc, results, response, browser, loadVars>>

\* capterra_loader.py:157-163 / :203-209: one step of the click loop, seen from
\* the batch: 'clicked = await try_click_element(...)' has returned True and
\* 'await async_wait_until_reviews_load(...)' is entered.  The loop is one
\* coroutine: it reaches this line again only after that await has returned.
TaskClick(i) ==
    /\ epc = "gather"
    /\ tasks[i].pc = "loading"
    /\ tasks[i].step = "idle"
    /\ tasks[i].clicks < MaxClicks
    /\ SetTask(i, [tasks[i] EXCEPT !.step = "polling", !.clicks = @ + 1])
    /\ UNCHANGED <<request, epc, results, response, browser, loadVars>>

\* capterra_loader.py:163-166 / :209-212: the wait returns, with growth or
\* without; the loop goes on or is left
TaskPollEnds(i) ==
    /\ epc = "gather"
    /\ tasks[i].pc = "loading"
    /\ tasks[i].step = "polling"
    /\ SetTask(i, [tasks[i] EXCEPT !.step = "idle"])
    /\ UNCHANGED <<request, epc, results, response, browser, loadVars>>

\* Time passes: the wall-clock budget of target i, whatever its value, runs
\* out while its controller is still at work (the click loop alone may last
\* 250 x 28 s).  capterra.py:35-37 creates and gathers the tasks with no
\* timeout and no cancellation, and nothing in the coroutine looks at the
\* clock: the task goes on as before.
TaskOverrunsBudget(i) ==
    /\ epc = "gather"
    /\ tasks[i].pc = "loading"
    /\ ~tasks[i].overdue
    /\ SetTask(i, [tasks[i] EXCEPT !.overdue = TRUE])
    /\ UNCHANGED <<request, epc, results, response, browser, loadVars>>

\* capterra_loader.py:233-242: finally: if driver: await driver.quit(); then
\* the return, and scrape_capterra_async to its end
TaskQuitAndReturn_no_quit(i) ==
    /\ epc = "gather"
    /\ tasks[i].pc = "finally"
    /\ \E r \in TaskOutcomes(tasks[i].page_source) : EndTask(i, r)
    /\ UNCHANGED <<request, epc, results, response, browser, loadVars>>

TaskQuitAndReturn(i) ==
    /\ epc = "gather"
    /\ tasks[i].pc = "finally"
    /\ browser' = [browser EXCEPT ![i] = IF tasks[i].driver THEN "quit" ELSE @]
    /\ \E r \in TaskOutcomes(tasks[i].page_source) : EndTask(i, r)
    /\ UNCHANGED <<request, epc, results, response, loadVars>>

(***************************************************************************)
(* scrape_capterra_endpoint after gather(return_exceptions=True).          *)
(***************************************************************************)
AllTasksDone == \A i \in TaskIds : tasks[i].pc = "done"

\* capterra.py:38-44, a loop over the task results in task order; the branch
\* for an exception evaluates app.version, and the module binds no name
\* "app": NameError, which ends the loop and the endpoint
RECURSIVE AggregateFrom(_, _, _)
AggregateFrom(res, ts, i) ==
    IF i > Len(ts) THEN [map |-> res, failed |-> FALSE]
    ELSE IF ts[i].raised THEN [map |-> res, failed |-> TRUE]
    ELSE AggregateFrom(
            [u \in DOMAIN res \cup {ts[i].url} |->
                IF u = ts[i].url THEN ts[i].entry ELSE res[u]],
            ts, i + 1)

Aggregate(res, ts) == AggregateFrom(res, ts, 1)

\* the request's start date is applied to the entries as a filter
EndpointAggregate_filters_by_date ==
    /\ epc = "gather"
    /\ AllTasksDone
    /\ results' = [u \in DOMAIN Aggregate(results, tasks).map |->
                    IF Truthy(request.start_date_str)
                    THEN ErrorEntry("filtered")
                    ELSE Aggregate(results, tasks).map[u]]
    /\ IF Aggregate(results, tasks).failed
       THEN /\ response' = Respond("error500", "NameError")
            /\ epc' = "crashed"
       ELSE /\ response' = Respond("map", "")
            /\ epc' = "returned"
    /\ UNCHANGED <<request, tasks, browser, loadVars>>

EndpointAggregate ==
    /\ epc = "gather"
    /\ AllTasksDone
    /\ results' = Aggregate(results, tasks).map
    /\ IF Aggregate(results, tasks).failed
       THEN /\ response' = Respond("error500", "NameError")
            /\ epc' = "crashed"
       ELSE /\ response' = Respond("map", "")
            /\ epc' = "returned"
    /\ UNCHANGED <<request, tasks, browser, loadVars>>

(***************************************************************************)
(* SpecBatch                                                               *)
(***************************************************************************)
RECURSIVE SeqsUpTo(_, _)
SeqsUpTo(S, n) ==
    IF n = 0 THEN {<<>>}
    ELSE SeqsUpTo(S, n - 1) \cup
         {Append(s, x) : s \in {t \in SeqsUpTo(S, n - 1) : Len(t) = n - 1}, x \in S}

\* no loader run is in view
IdleClick ==
    [pc |-> "idle", element |-> "none", plan |-> <<>>, attempt |-> 0,
     scripted_clicks |-> 0, result |-> "unset", raised |-> FALSE]

IdleOverlay ==
    [pc |-> "idle", open |-> FALSE, buttons |-> 0, idx |-> 0, plans |-> <<>>,
     opened |-> <<>>, clicks |-> <<>>, results |-> <<>>, raised |-> FALSE]

IdleTwin ==
    [phase |-> "idle", start_date_str |-> NoDate, end_date_str |-> NoDate,
     tasks |-> <<>>, results |-> <<>>, response |-> <<>>]

IdlePool == [cpus |-> 1, max_workers |-> 0, work |-> <<>>]

IdleV4 ==
    [pc |-> "idle", plan |-> <<>>, tail |-> "gone", raises |-> "never",
     faults |-> 0, count |-> 0, served |-> 0,
     num_reviews_before_click_dom |-> 0, consecutive_no_new_reviews_dom |-> 0,
     exit |-> "none", trail |-> <<"none", "none">>, seen |-> <<"none", "none">>]

IdlePop ==
    [pc |-> "idle", variant |-> "v4", kinds |-> <<>>, specific |-> "none",
     idx |-> 0, closed_any |-> FALSE, tried |-> {}, opened |-> {},
     new_handles |-> {}, attempted |-> {}, focus_window |-> 0,
     focus_frame |-> "top", back |-> "none"]

IdleHelpers ==
    /\ tce = IdleClick /\ ovl = IdleOverlay /\ twin = IdleTwin /\ pool = IdlePool
    /\ v4 = IdleV4 /\ pop = IdlePop

IdleLoad ==
    /\ page = [container |-> FALSE, first |-> 0, step |-> 0, grows |-> 0,
               total |-> NoTotal, button |-> "leaves", render |-> "sync"]
    /\ dom = 0 /\ pending = 0 /\ faults = 0 /\ clean = TRUE
    /\ chrome = "none" /\ quit_calls = 0 /\ overlay_calls = 0
    /\ lpc = "idle" /\ driver = FALSE /\ page_source_result = NoSnapshot
    /\ total_reviews_on_site = NoTotal /\ num_clicks_needed = 0
    /\ click_num = 0 /\ show_more_clicks = 0
    /\ current_review_count_dom = 0 /\ clicked = "unset" /\ elapsed = 0

InitBatch ==
    /\ IdleLoad
    /\ IdleHelpers
    /\ request \in [urls : SeqsUpTo(Urls, MaxUrls),
                    start_date_str : StartDates,
                    end_date_str : EndDates]
    \* the longest lists come without date bounds
    /\ Len(request.urls) = MaxUrls =>
            request.start_date_str = NoDate /\ request.end_date_str = NoDate
    /\ epc = "start"
    /\ results = <<>>
    /\ response = Respond("pending", "")
    /\ tasks = <<>>
    /\ browser = <<>>

NextBatch ==
    \/ RejectStartDate
    \/ RejectEndDate
    \/ RejectInvertedDates
    \/ RejectNoUrls
    \/ ReturnInvalidOnly
    \/ CreateTasks
    \/ \E i \in TaskIds : TaskPrepareDriver(i)
    \/ \E i \in TaskIds : TaskLoadPage(i)
    \/ \E i \in TaskIds : TaskQuitAndReturn(i)
    \/ EndpointAggregate

SpecBatch == InitBatch /\ [][NextBatch]_vars

(***************************************************************************)
(* SpecBudget: a batch of well-formed targets, with the passing of time    *)
(* against each target's wall-clock budget.                                *)
(***************************************************************************)
InitBudget ==
    /\ IdleLoad
    /\ IdleHelpers
    /\ request \in [urls : SeqsUpTo({UrlA, UrlB}, MaxUrls) \ {<<>>},
                    start_date_str : {NoDate},
                    end_date_str : {NoDate}]
    /\ epc = "start"
    /\ results = <<>>
    /\ response = Respond("pending", "")
    /\ tasks = <<>>
    /\ browser = <<>>

NextBudget ==
    \/ CreateTasks
    \/ \E i \in TaskIds : TaskPrepareDriver(i)
    \/ \E i \in TaskIds : TaskLoadPage(i)
    \/ \E i \in TaskIds : TaskOverrunsBudget(i)
    \/ \E i \in TaskIds : TaskQuitAndReturn(i)
    \/ EndpointAggregate

SpecBudget == InitBudget /\ [][NextBudget]_vars

\* the dates a client may send along: none, or well-formed ones in order
\* or not, or malformed ones
TwinDates == StartDates \X EndDates

\* one URL list, sent once without date bounds or with a start date, and
\* then again with other bounds
InitDates ==
    /\ IdleLoad
    /\ tce = IdleClick /\ ovl = IdleOverlay /\ pool = IdlePool
    /\ v4 = IdleV4 /\ pop = IdlePop
    /\ request \in [urls : [1..2 -> {UrlA, UrlOtherSite}] \cup {<<UrlA>>},
                    start_date_str : {NoDate, DateStr(2024, 1, 5)},
                    end_date_str : {NoDate}]
    /\ \E d \in TwinDates :
        twin = [IdleTwin EXCEPT !.phase = "first",
                                !.start_date_str = d[1], !.end_date_str = d[2]]
    /\ epc = "start"
    /\ results = <<>>
    /\ response = Respond("pending", "")
    /\ tasks = <<>>
    /\ browser = <<>>

\* capterra.py:17: the endpoint is entered again, for a request with the same
\* URL list and the other date bounds; nothing of the first call is left but
\* what the client (here: twin) has kept of it
SecondRequest ==
    /\ twin.phase = "first"
    /\ epc \in {"rejected", "returned", "crashed"}
    /\ twin' = [twin EXCEPT !.phase = "second", !.tasks = tasks,
                            !.results = results, !.response = response]
    /\ request' = [request EXCEPT !.start_date_str = twin.start_date_str,
                                  !.end_date_str = twin.end_date_str]
    /\ epc' = "start"
    /\ results' = <<>>
    /\ response' = Respond("pending", "")
    /\ tasks' = <<>>
    /\ browser' = <<>>
    /\ UNCHANGED <<pageVars, localVars, tce, ovl, pool, v4, pop>>

NextDates ==
    \/ RejectStartDate
    \/ RejectEndDate
    \/ RejectInvertedDates
    \/ ReturnInvalidOnly
    \/ CreateTasks
    \/ \E i \in TaskIds : TaskPrepareDriver(i)
    \/ \E i \in TaskIds : TaskLoadPage(i)
    \/ \E i \in TaskIds : TaskQuitAndReturn(i)
    \/ EndpointAggregate
    \/ SecondRequest

SpecDates == InitDates /\ [][NextDates]_vars

\* two targets whose click loops run side by side
InitSteps ==
    /\ IdleLoad
    /\ IdleHelpers
    /\ request \in [urls : [1..2 -> {UrlA, UrlB}],
                    start_date_str : {NoDate},
                    end_date_str : {NoDate}]
    /\ epc = "start"
    /\ results = <<>>
    /\ response = Respond("pending", "")
    /\ tasks = <<>>
    /\ browser = <<>>

NextSteps ==
    \/ CreateTasks
    \/ \E i \in TaskIds : TaskPrepareDriver(i)
    \/ \E i \in TaskIds : TaskClick(i)
    \/ \E i \in TaskIds : TaskPollEnds(i)
    \/ \E i \in TaskIds : TaskLoadPage(i)
    \/ \E i \in TaskIds : TaskQuitAndReturn(i)
    \/ EndpointAggregate

SpecSteps == InitSteps /\ [][NextSteps]_vars

(***************************************************************************)
(* The load controller: _load_all_capterra_reviews_driverless, one step    *)
(* per awaited driver call, against one page.                              *)
(*                                                                         *)
(* The page: `first` cards are in the DOM after navigation; each of the    *)
(* first `grows` clicks on "Show more" adds `step` cards, at once          *)
(* (render = "sync") or some time later (render = "async": PageRender);    *)
(* the button stays in the document or leaves it once nothing more will    *)
(* come; `total` is the review count the header declares (NoTotal: none    *)
(* readable).  Besides, up to `faults` driver calls of the run raise or    *)
(* read a stale, empty list.                                               *)
(***************************************************************************)
\* config.py:49
REVIEWS_BATCH_SIZE == 25
\* config.py:42
AFTER_SHOW_MORE_CLICK_LOADING_TIMEOUT_S == 28
\* capterra_loader.py:183
max_show_more_attempts_raised == 250 + 50

max_show_more_attempts == 250

\* selenium_helpers.py:202: the poll's budget, in 1/100 s
PollTimeout == AFTER_SHOW_MORE_CLICK_LOADING_TIMEOUT_S * 100
\* selenium_helpers.py:224  asyncio.sleep(0.35)
AfterPollSleep_none(e) == e

AfterPollSleep(e) == e + 35
\* selenium_helpers.py:212  asyncio.sleep(0.2)
AfterErrorSleep(e) == e + 20

\* selenium_helpers.py:206 and :232  len(...) > initial_review_count
GrowthSeen_or_equal(count, initial_review_count) == count >= initial_review_count

GrowthSeen(count, initial_review_count) == count > initial_review_count

\* capterra_loader.py:125-130
ClicksNeeded(total, loaded) ==
    IF loaded >= total THEN 0
    ELSE (total - loaded + REVIEWS_BATCH_SIZE - 1) \div REVIEWS_BATCH_SIZE

\* capterra_loader.py:117: the declared-total strategy, else the fallback
Declared == total_reviews_on_site # NoTotal /\ total_reviews_on_site > 0

\* capterra_loader.py:133 range(num_clicks_needed), :184 range(250)
LoopBound == IF Declared THEN num_clicks_needed ELSE max_show_more_attempts

PageFinal(pg) == pg.first + pg.grows * pg.step

OrdinaryPages ==
    {[container |-> TRUE, first |-> fs[1], step |-> fs[2], grows |-> g,
      total |-> t, button |-> b, render |-> r] :
        fs \in {<<0, 10>>, <<25, 25>>}, g \in 0..MaxGrowths,
        t \in {NoTotal, 0, 1}, b \in {"stays", "leaves"}, r \in {"sync", "async"}}

\* the header declares nothing, the true count, or one batch too many
WithTotal(pg) ==
    [pg EXCEPT !.total = IF pg.total = NoTotal THEN NoTotal
                         ELSE PageFinal(pg) + pg.total * REVIEWS_BATCH_SIZE]

\* pages whose button stays in the document and is disabled once nothing
\* more will come
DisabledButtonPages ==
    {[container |-> TRUE, first |-> 25, step |-> 25, grows |-> g,
      total |-> NoTotal, button |-> "disabled", render |-> "sync"] :
        g \in 0..MaxGrowths}

\* pages that bring more than REVIEWS_BATCH_SIZE cards per click and declare
\* their true count
BigBatchPages ==
    {WithTotal([container |-> TRUE, first |-> 25, step |-> 50, grows |-> g,
                total |-> 0, button |-> "stays", render |-> "sync"]) :
        g \in 1..MaxGrowths}

Pages ==
    {WithTotal(pg) : pg \in OrdinaryPages}
    \cup DisabledButtonPages
    \cup BigBatchPages
    \cup {[container |-> FALSE, first |-> 0, step |-> 25, grows |-> 0,
           total |-> NoTotal, button |-> "leaves", render |-> "sync"]}

\* pages that keep growing: to the click ceiling and beyond, and the page of
\* the 5-growths-of-10 scenario
LongPages ==
    {[container |-> TRUE, first |-> 25, step |-> 25, grows |-> LongRun,
      total |-> t, button |-> "stays", render |-> "sync"] :
        t \in {NoTotal, 25 + LongRun * 25}}
    \cup {[container |-> TRUE, first |-> 0, step |-> 10, grows |-> 5,
           total |-> NoTotal, button |-> "stays", render |-> "sync"]}

\* no request is in view
IdleBatch ==
    /\ request = [urls |-> <<>>, start_date_str |-> NoDate, end_date_str |-> NoDate]
    /\ epc = "idle"
    /\ results = <<>>
    /\ response = Respond("pending", "")
    /\ tasks = <<>>
    /\ browser = <<>>

\* capterra_loader.py:85-92
InitLoad ==
    /\ IdleBatch
    /\ IdleHelpers
    /\ \/ page \in Pages /\ faults \in {0, MaxFaults}
       \/ page \in LongPages /\ faults = 0
    /\ dom = IF page.container THEN page.first ELSE 0
    /\ pending = 0 /\ clean = TRUE
    /\ chrome = "none" /\ quit_calls = 0 /\ overlay_calls = 0
    /\ lpc = "start" /\ driver = FALSE /\ page_source_result = NoSnapshot
    /\ total_reviews_on_site = NoTotal /\ num_clicks_needed = 0
    /\ click_num = 0 /\ show_more_clicks = 0
    /\ current_review_count_dom = 0 /\ clicked = "unset" /\ elapsed = 0

\* one driver call fails (raises, or reads a stale list)
Fault ==
    /\ faults > 0
    /\ faults' = faults - 1
    /\ clean' = FALSE

NoFault == UNCHANGED <<faults, clean>>

\* capterra_loader.py:95-97 with selenium_helpers.py:13-32
LoadPrepareDriver ==
    /\ lpc = "start"
    /\ \E o \in PrepareOutcomes :
        /\ IF o = "ok" THEN NoFault ELSE Fault
        /\ chrome' = IF o = "launch" THEN "none" ELSE "running"
        /\ driver' = (o = "ok")
        /\ lpc' = IF o = "ok" THEN "navigate" ELSE "finally"
    /\ UNCHANGED <<page, dom, pending, quit_calls, overlay_calls>>
    /\ UNCHANGED <<page_source_result, total_reviews_on_site, num_clicks_needed,
                   click_num, show_more_clicks, current_review_count_dom, clicked, elapsed>>
    /\ UNCHANGED <<batchVars, helperVars>>

\* capterra_loader.py:100-102: driver.get, then the settle sleep
LoadNavigate_ignores_failure ==
    /\ lpc = "navigate"
    /\ \/ NoFault /\ lpc' = "overlay"
       \/ Fault /\ lpc' = "overlay"
    /\ UNCHANGED <<page, dom, pending, chrome, quit_calls, overlay_calls>>
    /\ UNCHANGED <<driver, page_source_result, total_reviews_on_site, num_clicks_needed,
                   click_num, show_more_clicks, current_review_count_dom, clicked, elapsed>>
    /\ UNCHANGED <<batchVars, helperVars>>

LoadNavigate ==
    /\ lpc = "navigate"
    /\ \/ NoFault /\ lpc' = "overlay"
       \/ Fault /\ lpc' = "finally"
    /\ UNCHANGED <<page, dom, pending, chrome, quit_calls, overlay_calls>>
    /\ UNCHANGED <<driver, page_source_result, total_reviews_on_site, num_clicks_needed,
                   click_num, show_more_clicks, current_review_count_dom, clicked, elapsed>>
    /\ UNCHANGED <<batchVars, helperVars>>

\* capterra_loader.py:104: the interference handler, which never raises
LoadInitialOverlay ==
    /\ lpc = "overlay"
    /\ overlay_calls' = overlay_calls + 1
    /\ lpc' = "container"
    /\ UNCHANGED <<page, dom, pending, faults, clean, chrome, quit_calls>>
    /\ UNCHANGED <<driver, page_source_result, total_reviews_on_site, num_clicks_needed,
                   click_num, show_more_clicks, current_review_count_dom, clicked, elapsed>>
    /\ UNCHANGED <<batchVars, helperVars>>

\* capterra_loader.py:106-111: container found; or TimeoutException, the
\* snapshot and the early return; or another exception
LoadFindContainer_no_snapshot ==
    /\ lpc = "container"
    /\ \/ /\ page.container
          /\ NoFault
          /\ lpc' = "total"
       \/ /\ ~page.container
          /\ NoFault
          /\ lpc' = "finally"
       \/ /\ Fault
          /\ lpc' = "finally"
    /\ UNCHANGED <<page, dom, pending, chrome, quit_calls, overlay_calls>>
    /\ UNCHANGED <<driver, page_source_result, total_reviews_on_site, num_clicks_needed,
                   click_num, show_more_clicks, current_review_count_dom, clicked, elapsed>>
    /\ UNCHANGED <<batchVars, helperVars>>

LoadFindContainer ==
    /\ lpc = "container"
    /\ \/ /\ page.container
          /\ NoFault
          /\ lpc' = "total"
          /\ UNCHANGED page_source_result
       \/ /\ ~page.container
          /\ NoFault
          /\ page_source_result' = dom
          /\ lpc' = "finally"
       \/ /\ Fault
          /\ lpc' = "finally"
          /\ UNCHANGED page_source_result
    /\ UNCHANGED <<page, dom, pending, chrome, quit_calls, overlay_calls>>
    /\ UNCHANGED <<driver, total_reviews_on_site, num_clicks_needed,
                   click_num, show_more_clicks, current_review_count_dom, clicked, elapsed>>
    /\ UNCHANGED <<batchVars, helperVars>>

\* capterra_loader.py:113-117 with :20-82: the declared total, or None when
\* nothing matched or an error was swallowed
LoadGetTotal ==
    /\ lpc = "total"
    /\ \/ NoFault /\ total_reviews_on_site' = page.total
       \/ Fault /\ total_reviews_on_site' = NoTotal
    /\ lpc' = IF total_reviews_on_site' # NoTotal /\ total_reviews_on_site' > 0
              THEN "initial_count" ELSE "loop"
    /\ UNCHANGED <<page, dom, pending, chrome, quit_calls, overlay_calls>>
    /\ UNCHANGED <<driver, page_source_result, num_clicks_needed,
                   click_num, show_more_clicks, current_review_count_dom, clicked, elapsed>>
    /\ UNCHANGED <<batchVars, helperVars>>

\* capterra_loader.py:119-131
LoadInitialCount ==
    /\ lpc = "initial_count"
    /\ \/ /\ NoFault
          /\ num_clicks_needed' = ClicksNeeded(total_reviews_on_site, dom)
          /\ lpc' = "loop"
       \/ /\ Fault
          /\ lpc' = "finally"
          /\ UNCHANGED num_clicks_needed
    /\ UNCHANGED <<page, dom, pending, chrome, quit_calls, overlay_calls>>
    /\ UNCHANGED <<driver, page_source_result, total_reviews_on_site,
                   click_num, show_more_clicks, current_review_count_dom, clicked, elapsed>>
    /\ UNCHANGED <<batchVars, helperVars>>

(***************************************************************************)
(* The click loop (capterra_loader.py:133-176 with a declared total,       *)
(* :184-221 without) and the wait after each click                         *)
(* (async_wait_until_reviews_load, selenium_helpers.py:199-232).           *)
(***************************************************************************)
\* the loop leaves the page and the driver's bookkeeping alone
LoopFrame ==
    /\ UNCHANGED <<page, chrome, quit_calls>>
    /\ UNCHANGED <<driver, page_source_result, total_reviews_on_site, num_clicks_needed>>
    /\ UNCHANGED <<batchVars, helperVars>>

\* :133 / :184: the range is used up
LoopDone ==
    /\ lpc = "loop"
    /\ click_num >= LoopBound
    /\ lpc' = "after_loop"
    /\ UNCHANGED <<dom, pending, faults, clean, overlay_calls>>
    /\ UNCHANGED <<click_num, show_more_clicks, current_review_count_dom, clicked, elapsed>>
    /\ LoopFrame

\* the loop goes on to the button whatever the count
LoopMeasure_no_early_stop ==
    /\ lpc = "loop"
    /\ click_num < LoopBound
    /\ \/ /\ NoFault
          /\ current_review_count_dom' = dom
          /\ lpc' = "find_button"
       \/ /\ Fault
          /\ dom > 0
          /\ current_review_count_dom' = 0
          /\ lpc' = "find_button"
       \/ /\ Fault
          /\ lpc' = "finally"
          /\ UNCHANGED current_review_count_dom
    /\ UNCHANGED <<dom, pending, overlay_calls>>
    /\ UNCHANGED <<click_num, show_more_clicks, clicked, elapsed>>
    /\ LoopFrame

\* :134-140 / :185-186: the count before the click (outside the inner try:
\* an exception here ends the run), and with a declared total the early stop
LoopMeasure ==
    /\ lpc = "loop"
    /\ click_num < LoopBound
    /\ \/ /\ NoFault
          /\ current_review_count_dom' = dom
          /\ lpc' = IF Declared /\ dom >= total_reviews_on_site
                    THEN "after_loop" ELSE "find_button"
       \/ /\ Fault
          /\ dom > 0
          /\ current_review_count_dom' = 0
          /\ lpc' = "find_button"
       \/ /\ Fault
          /\ lpc' = "finally"
          /\ UNCHANGED current_review_count_dom
    /\ UNCHANGED <<dom, pending, overlay_calls>>
    /\ UNCHANGED <<click_num, show_more_clicks, clicked, elapsed>>
    /\ LoopFrame

\* the "Show more" button is in the document
ButtonPresent == page.button # "leaves" \/ show_more_clicks < page.grows

\* the button is in the document and carries the disabled attribute
ButtonDisabled == page.button = "disabled" /\ show_more_clicks >= page.grows

\* :151-153 / :197-199: found; TimeoutException (:171, :216) or another
\* exception (:174, :219), and the loop breaks
LoopFindButton_absent_raises ==
    /\ lpc = "find_button"
    /\ \/ ButtonPresent /\ NoFault /\ lpc' = "click"
       \/ ~ButtonPresent /\ NoFault /\ lpc' = "finally"
       \/ Fault /\ lpc' = "after_loop"
    /\ UNCHANGED <<dom, pending, overlay_calls>>
    /\ UNCHANGED <<click_num, show_more_clicks, current_review_count_dom, clicked, elapsed>>
    /\ LoopFrame

LoopFindButton ==
    /\ lpc = "find_button"
    /\ \/ ButtonPresent /\ NoFault /\ lpc' = "click"
       \/ ~ButtonPresent /\ NoFault /\ lpc' = "after_loop"
       \/ Fault /\ lpc' = "after_loop"
    /\ UNCHANGED <<dom, pending, overlay_calls>>
    /\ UNCHANGED <<click_num, show_more_clicks, current_review_count_dom, clicked, elapsed>>
    /\ LoopFrame

\* :157-162 / :203-208: try_click_element(always_js_click=True) returns True
\* and the page takes the click, or returns False and the loop breaks.  The
\* loop never asks whether the button is enabled, and the scripted
\* arguments[0].click() on a disabled button returns normally and does
\* nothing: True.
LoopClick_failure_continues ==
    /\ lpc = "click"
    /\ \/ /\ NoFault
          /\ clicked' = "True"
          /\ show_more_clicks' = show_more_clicks + 1
          /\ IF show_more_clicks < page.grows
             THEN IF page.render = "sync"
                  THEN dom' = dom + page.step /\ UNCHANGED pending
                  ELSE pending' = pending + page.step /\ UNCHANGED dom
             ELSE UNCHANGED <<dom, pending>>
          /\ elapsed' = 0
          /\ lpc' = "poll"
       \/ /\ Fault
          /\ clicked' = "False"
          /\ lpc' = "find_button"
          /\ UNCHANGED <<dom, pending, show_more_clicks, elapsed>>
    /\ UNCHANGED <<overlay_calls, click_num, current_review_count_dom>>
    /\ LoopFrame

LoopClick ==
    /\ lpc = "click"
    /\ \/ /\ NoFault
          /\ clicked' = "True"
          /\ show_more_clicks' = show_more_clicks + 1
          /\ IF show_more_clicks < page.grows
             THEN IF page.render = "sync"
                  THEN dom' = dom + page.step /\ UNCHANGED pending
                  ELSE pending' = pending + page.step /\ UNCHANGED dom
             ELSE UNCHANGED <<dom, pending>>
          /\ elapsed' = 0
          /\ lpc' = "poll"
       \/ /\ Fault
          /\ clicked' = "False"
          /\ lpc' = "after_loop"
          /\ UNCHANGED <<dom, pending, show_more_clicks, elapsed>>
    /\ UNCHANGED <<overlay_calls, click_num, current_review_count_dom>>
    /\ LoopFrame

\* what the loop does with the wait's result: :164-169 / :210-215.  Growth:
\* every 7th click the interference handler runs, then the next iteration.
\* No growth: break.
\* the handler is invoked after a step that reported no growth as well
AfterWait_overlay_after_stall(reviews_loaded_successfully) ==
    /\ elapsed' = 0
    /\ IF reviews_loaded_successfully
       THEN /\ overlay_calls' = IF show_more_clicks % 7 = 0
                                THEN overlay_calls + 1 ELSE overlay_calls
            /\ click_num' = click_num + 1
            /\ lpc' = "loop"
       ELSE /\ lpc' = "after_loop"
            /\ overlay_calls' = overlay_calls + 1
            /\ UNCHANGED click_num

AfterWait(reviews_loaded_successfully) ==
    /\ elapsed' = 0
    /\ IF reviews_loaded_successfully
       THEN /\ overlay_calls' = IF show_more_clicks % 7 = 0
                                THEN overlay_calls + 1 ELSE overlay_calls
            /\ click_num' = click_num + 1
            /\ lpc' = "loop"
       ELSE /\ lpc' = "after_loop"
            /\ UNCHANGED <<overlay_calls, click_num>>

\* selenium_helpers.py:202-213: one measurement of the poll
PollMeasure ==
    /\ lpc = "poll"
    /\ elapsed < PollTimeout
    /\ \/ /\ NoFault
          /\ IF GrowthSeen(dom, current_review_count_dom)
             THEN AfterWait(TRUE)
             ELSE lpc' = "poll_loader" /\ UNCHANGED <<overlay_calls, click_num, elapsed>>
       \/ /\ Fault
          /\ lpc' = "poll_loader"
          /\ UNCHANGED <<overlay_calls, click_num, elapsed>>
       \/ /\ Fault
          /\ elapsed' = AfterErrorSleep(elapsed)
          /\ lpc' = "poll"
          /\ UNCHANGED <<overlay_calls, click_num>>
    /\ UNCHANGED <<dom, pending, show_more_clicks, current_review_count_dom, clicked>>
    /\ LoopFrame

\* the loading indicator is displayed while requested cards are on their way
LoaderDisplayed == pending > 0

\* selenium_helpers.py:201, :217-221: the flag starts False and is set only
\* past the any() of :216, which raises (see PollLoaderCheck): it stays False
loader_was_seen_and_disappeared_without_increase == FALSE

\* the loader check returns False as soon as the indicator is not displayed
PollLoaderCheck_returns_when_hidden ==
    /\ lpc = "poll_loader"
    /\ IF LoaderDisplayed
       THEN /\ elapsed' = AfterPollSleep(elapsed)
            /\ lpc' = "poll"
            /\ UNCHANGED <<overlay_calls, click_num>>
       ELSE AfterWait(FALSE)
    /\ UNCHANGED <<dom, pending, faults, clean>>
    /\ UNCHANGED <<show_more_clicks, current_review_count_dom, clicked>>
    /\ LoopFrame

\* selenium_helpers.py:214-224: the loader check, then the sleep.  any() is
\* handed an asynchronous generator (the generator expression at :216
\* contains await) and raises TypeError, which :222 swallows: the flag
\* loader_was_seen_and_disappeared_without_increase is never set and the
\* return at :219 is never reached.
PollLoaderCheck ==
    /\ lpc = "poll_loader"
    /\ elapsed' = AfterPollSleep(elapsed)
    /\ lpc' = "poll"
    /\ UNCHANGED <<dom, pending, faults, clean, overlay_calls>>
    /\ UNCHANGED <<click_num, show_more_clicks, current_review_count_dom, clicked>>
    /\ LoopFrame

\* the budget elapses and the wait gives up without its last measurement
PollFinalCheck_no_final_measure ==
    /\ lpc = "poll"
    /\ elapsed >= PollTimeout
    /\ AfterWait(FALSE)
    /\ UNCHANGED <<faults, clean>>
    /\ UNCHANGED <<dom, pending, show_more_clicks, current_review_count_dom, clicked>>
    /\ LoopFrame

\* selenium_helpers.py:226-232: the last measurement, after the budget; an
\* exception leaves the list empty.  Growth still pending when the wait gives
\* up has come too late.
PollFinalCheck ==
    /\ lpc = "poll"
    /\ elapsed >= PollTimeout
    /\ \/ /\ UNCHANGED faults
          /\ clean' = (clean /\ (GrowthSeen(dom, current_review_count_dom) \/ pending = 0))
          /\ AfterWait(GrowthSeen(dom, current_review_count_dom))
       \/ /\ Fault
          /\ AfterWait(GrowthSeen(0, current_review_count_dom))
    /\ UNCHANGED <<dom, pending, show_more_clicks, current_review_count_dom, clicked>>
    /\ LoopFrame

\* capterra_loader.py:178 and :224-225: the snapshot; an exception leaves
\* page_source_result None
LoadSnapshot ==
    /\ lpc = "after_loop"
    /\ \/ NoFault /\ page_source_result' = dom
       \/ Fault /\ UNCHANGED page_source_result
    /\ lpc' = "finally"
    /\ UNCHANGED <<page, dom, pending, chrome, quit_calls, overlay_calls>>
    /\ UNCHANGED <<driver, total_reviews_on_site, num_clicks_needed,
                   click_num, show_more_clicks, current_review_count_dom, clicked, elapsed>>
    /\ UNCHANGED <<batchVars, helperVars>>

\* capterra_loader.py:233-242: finally: if driver: await driver.quit()
\* (an exception of quit is swallowed), then the return
LoadFinally_no_quit ==
    /\ lpc = "finally"
    /\ lpc' = "returned"
    /\ UNCHANGED <<page, dom, pending, faults, clean, overlay_calls, chrome, quit_calls>>
    /\ UNCHANGED <<driver, page_source_result, total_reviews_on_site, num_clicks_needed,
                   click_num, show_more_clicks, current_review_count_dom, clicked, elapsed>>
    /\ UNCHANGED <<batchVars, helperVars>>

LoadFinally ==
    /\ lpc = "finally"
    /\ IF driver
       THEN quit_calls' = quit_calls + 1 /\ chrome' = "quit"
       ELSE UNCHANGED <<quit_calls, chrome>>
    /\ lpc' = "returned"
    /\ UNCHANGED <<page, dom, pending, faults, clean, overlay_calls>>
    /\ UNCHANGED <<driver, page_source_result, total_reviews_on_site, num_clicks_needed,
                   click_num, show_more_clicks, current_review_count_dom, clicked, elapsed>>
    /\ UNCHANGED <<batchVars, helperVars>>

\* the page renders the cards a click asked for
PageRender ==
    /\ chrome = "running"
    /\ pending > 0
    /\ dom' = dom + pending
    /\ pending' = 0
    /\ UNCHANGED <<page, faults, clean, chrome, quit_calls, overlay_calls>>
    /\ UNCHANGED localVars
    /\ UNCHANGED <<batchVars, helperVars>>

(***************************************************************************)
(* SpecLoad, and FairSpecLoad: the event loop resumes a coroutine whose    *)
(* awaited call has returned or raised.                                    *)
(***************************************************************************)
Controller ==
    \/ LoadPrepareDriver
    \/ LoadNavigate
    \/ LoadInitialOverlay
    \/ LoadFindContainer
    \/ LoadGetTotal
    \/ LoadInitialCount
    \/ LoopDone
    \/ LoopMeasure
    \/ LoopFindButton
    \/ LoopClick
    \/ PollMeasure
    \/ PollLoaderCheck
    \/ PollFinalCheck
    \/ LoadSnapshot
    \/ LoadFinally

NextLoad ==
    \/ LoadPrepareDriver
    \/ LoadNavigate
    \/ LoadInitialOverlay
    \/ LoadFindContainer
    \/ LoadGetTotal
    \/ LoadInitialCount
    \/ LoopDone
    \/ LoopMeasure
    \/ LoopFindButton
    \/ LoopClick
    \/ PollMeasure
    \/ PollLoaderCheck
    \/ PollFinalCheck
    \/ LoadSnapshot
    \/ LoadFinally
    \/ PageRender

SpecLoad == InitLoad /\ [][NextLoad]_vars

FairSpecLoad == SpecLoad /\ WF_vars(Controller)

(***************************************************************************)
(* SpecScrape: one coroutine scrape_capterra_async, that is the loader run *)
(* of SpecLoad followed by capterra_service.py:40-77.  The coroutine's     *)
(* outcome is kept as the one task of `tasks`.                             *)
(***************************************************************************)
\* capterra_service.py:40-77 on a snapshot with that many review cards: the
\* extractor keeps the cards it can parse (capterra_parser.py:215-221)
ScrapeOutcomes(snapshot) ==
    IF snapshot = NoSnapshot
    THEN TaskOutcomes(NoPage)
    ELSE {o \in TaskOutcomes(Page) : o.raised \/ o.entry.reviews <= snapshot}

ScrapeReturn ==
    /\ lpc = "returned"
    /\ tasks = <<>>
    /\ \E o \in ScrapeOutcomes(page_source_result) :
        tasks' = <<[NewTask(UrlA) EXCEPT !.pc = "done", !.raised = o.raised,
                                         !.entry = o.entry]>>
    /\ UNCHANGED <<request, epc, results, response, browser>>
    /\ UNCHANGED loadVars

NextScrape ==
    \/ LoadPrepareDriver
    \/ LoadNavigate
    \/ LoadInitialOverlay
    \/ LoadFindContainer
    \/ LoadGetTotal
    \/ LoadInitialCount
    \/ LoopDone
    \/ LoopMeasure
    \/ LoopFindButton
    \/ LoopClick
    \/ PollMeasure
    \/ PollLoaderCheck
    \/ PollFinalCheck
    \/ LoadSnapshot
    \/ LoadFinally
    \/ PageRender
    \/ ScrapeReturn

SpecScrape == InitLoad /\ [][NextScrape]_vars

(***************************************************************************)
(* try_click_element(always_js_click=True), called on its own (SpecClick). *)
(* The driver's behaviour is a plan drawn at the start: the state of the   *)
(* element at entry, and for each pass of the retry loop what happens      *)
(* before the click (the re-validation and the scroll nudge of passes 2    *)
(* and 3) and what the click script does.                                  *)
(***************************************************************************)
\* :65 None; :71 tag_name raises StaleElementReferenceException; tag_name
\* raises something else (:179); :75 isConnected false; usable
ElementStates == {"none", "stale", "error", "detached", "ok"}

\* :94-103 before the click of a later pass: element.tag_name and isConnected,
\* then the scrollBy script, whose exceptions reach the handlers of :108-123
BeforeClick == {"ok", "stale", "detached", "timeout", "js", "other"}

\* :106 execute_script("arguments[0].click();"): returns, asyncio.TimeoutError,
\* JavascriptException, StaleElementReferenceException, any other exception
ClickScript == {"returns", "timeout", "js", "stale", "other"}

\* :89 for attempt in range(3)
JsClickAttempts == 3

ClickPlans ==
    {p \in [1..JsClickAttempts -> [before : BeforeClick, click : ClickScript]] :
        p[1].before = "ok"}

\* :63-64
InitClick ==
    /\ IdleBatch
    /\ IdleLoad
    /\ ovl = IdleOverlay /\ twin = IdleTwin /\ pool = IdlePool
    /\ v4 = IdleV4 /\ pop = IdlePop
    /\ \E e \in ElementStates, p \in ClickPlans :
        /\ e # "ok" => p = [k \in 1..JsClickAttempts |-> [before |-> "ok", click |-> "returns"]]
        /\ tce = [IdleClick EXCEPT !.pc = "entry", !.element = e, !.plan = p]

ClickReturn(value) == [tce EXCEPT !.pc = "done", !.result = value]

ClickFrame ==
    UNCHANGED <<batchVars, pageVars, localVars, ovl, twin, pool, v4, pop>>

\* :65-86: the checks at entry and scrollIntoView, whose errors are ignored
ClickEntry ==
    /\ tce.pc = "entry"
    /\ tce' = IF tce.element = "ok"
              THEN [tce EXCEPT !.pc = "attempt"]
              ELSE ClickReturn("False")
    /\ ClickFrame

\* what the pass does before its click: nothing left to do (the pass is
\* over, with the given continuation) or the click is to be made
PassOutcome(a, attempt) ==
    IF a.before \in {"stale", "detached", "other"} THEN "False"
    ELSE IF a.before = "timeout" THEN "next"
    ELSE IF a.before = "js" THEN (IF attempt = 2 THEN "False" ELSE "next")
    ELSE IF a.click = "returns" THEN "True"
    ELSE IF a.click = "timeout" THEN "next"
    ELSE IF a.click = "js" THEN (IF attempt = 2 THEN "False" ELSE "next")
    ELSE "False"

\* an unknown error of the click script is taken for a timeout
ClickAttempt_retries_unknown ==
    /\ tce.pc = "attempt"
    /\ tce.attempt < JsClickAttempts
    /\ LET a == tce.plan[tce.attempt + 1]
           o == IF a.before = "ok" /\ a.click = "other"
                THEN "next" ELSE PassOutcome(a, tce.attempt)
           n == IF a.before = "ok" THEN tce.scripted_clicks + 1
                ELSE tce.scripted_clicks
       IN  tce' = IF o = "next"
                  THEN [tce EXCEPT !.attempt = @ + 1, !.scripted_clicks = n]
                  ELSE [ClickReturn(o) EXCEPT !.scripted_clicks = n]
    /\ ClickFrame

\* :89-123: one pass of the loop
ClickAttempt ==
    /\ tce.pc = "attempt"
    /\ tce.attempt < JsClickAttempts
    /\ LET a == tce.plan[tce.attempt + 1]
           o == PassOutcome(a, tce.attempt)
           n == IF a.before = "ok" THEN tce.scripted_clicks + 1
                ELSE tce.scripted_clicks
       IN  tce' = IF o = "next"
                  THEN [tce EXCEPT !.attempt = @ + 1, !.scripted_clicks = n]
                  ELSE [ClickReturn(o) EXCEPT !.scripted_clicks = n]
    /\ ClickFrame

\* :127: the range is used up
ClickExhausted ==
    /\ tce.pc = "attempt"
    /\ tce.attempt >= JsClickAttempts
    /\ tce' = ClickReturn("False")
    /\ ClickFrame

NextClick ==
    \/ ClickEntry
    \/ ClickAttempt
    \/ ClickExhausted

SpecClick == InitClick /\ [][NextClick]_vars

(***************************************************************************)
(* handle_specific_overlay_popup, called twice in a row with nothing       *)
(* happening on the page in between (SpecOverlay).  The page has one       *)
(* dialog, open or not, and the selector matches its close buttons, which  *)
(* are displayed while it is open; a click that succeeds closes it.  The   *)
(* driver's behaviour in each call is a plan drawn at the start.           *)
(***************************************************************************)
\* :185 find_elements: a list (empty when nothing matches), TimeoutException,
\* any other exception
Lookups == {"found", "timeout", "error"}

\* :188-189 per button: async_is_element_displayed_js fails (stale element,
\* script error: False); try_click_element returns False; it returns True
ButtonPlans == {"check_fails", "click_fails", "clicked"}

CallPlans(n) ==
    {[lookup |-> l, btn |-> [b \in 1..MaxButtons |-> "clicked"]] :
        l \in {"timeout", "error"}}
    \cup {[lookup |-> "found", btn |-> f] :
            f \in {g \in [1..MaxButtons -> ButtonPlans] :
                        \A b \in 1..MaxButtons : b > n => g[b] = "clicked"}}

InitOverlay ==
    /\ IdleBatch
    /\ IdleLoad
    /\ tce = IdleClick /\ twin = IdleTwin /\ pool = IdlePool
    /\ v4 = IdleV4 /\ pop = IdlePop
    /\ \E o \in BOOLEAN, n \in 0..MaxButtons :
        \E p1 \in CallPlans(n), p2 \in CallPlans(n) :
            ovl = [IdleOverlay EXCEPT !.pc = "lookup", !.open = o, !.buttons = n,
                                      !.plans = <<p1, p2>>]

\* the call now running
Call == Len(ovl.results) + 1

OverlayFrame ==
    UNCHANGED <<batchVars, pageVars, localVars, tce, twin, pool, v4, pop>>

\* the call returns; the second call follows the first at once
OverlayReturn(o, value) ==
    [o EXCEPT !.results = Append(@, value),
              !.idx = 0,
              !.pc = IF Len(o.results) + 1 < 2 THEN "lookup" ELSE "done"]

\* an exception of the lookup other than TimeoutException leaves the handler
OverlayLookup_raises ==
    /\ ovl.pc = "lookup"
    /\ LET o == [ovl EXCEPT !.opened = Append(@, ovl.open), !.clicks = Append(@, 0)]
           p == ovl.plans[Call]
       IN  ovl' = IF p.lookup = "found" /\ ovl.buttons > 0
                  THEN [o EXCEPT !.pc = "buttons", !.idx = 1]
                  ELSE IF p.lookup = "error"
                  THEN [o EXCEPT !.pc = "done", !.raised = TRUE]
                  ELSE OverlayReturn(o, FALSE)
    /\ OverlayFrame

\* :185-186 and :193-197: the lookup; nothing matched, a timeout or any
\* other exception returns False
OverlayLookup ==
    /\ ovl.pc = "lookup"
    /\ LET o == [ovl EXCEPT !.opened = Append(@, ovl.open), !.clicks = Append(@, 0)]
           p == ovl.plans[Call]
       IN  ovl' = IF p.lookup = "found" /\ ovl.buttons > 0
                  THEN [o EXCEPT !.pc = "buttons", !.idx = 1]
                  ELSE OverlayReturn(o, FALSE)
    /\ OverlayFrame

\* a button is clicked whether it is displayed or not
OverlayButton_skips_display_check ==
    /\ ovl.pc = "buttons"
    /\ LET k == Len(ovl.results) + 1
           b == ovl.plans[k].btn[ovl.idx]
       IN  ovl' = IF ovl.idx > ovl.buttons
                  THEN OverlayReturn(ovl, FALSE)
                  ELSE IF b = "clicked"
                  THEN OverlayReturn([ovl EXCEPT !.open = FALSE, !.clicks[k] = @ + 1], TRUE)
                  ELSE [ovl EXCEPT !.idx = @ + 1]
    /\ OverlayFrame

\* :187-192 and :197: the next button; the first one that is displayed and
\* takes the click ends the call with True, the end of the list with False
OverlayButton ==
    /\ ovl.pc = "buttons"
    /\ LET k == Len(ovl.results) + 1
           b == ovl.plans[k].btn[ovl.idx]
       IN  ovl' = IF ovl.idx > ovl.buttons
                  THEN OverlayReturn(ovl, FALSE)
                  ELSE IF ovl.open /\ b = "clicked"
                  THEN OverlayReturn([ovl EXCEPT !.open = FALSE, !.clicks[k] = @ + 1], TRUE)
                  ELSE [ovl EXCEPT !.idx = @ + 1]
    /\ OverlayFrame

NextOverlay ==
    \/ OverlayLookup
    \/ OverlayButton

SpecOverlay == InitOverlay /\ [][NextOverlay]_vars

(***************************************************************************)
(* src/v4.py: scrape_capterra_endpoint with its ThreadPoolExecutor         *)
(* (SpecPool).  Every valid URL is submitted at once; a worker thread      *)
(* takes the next queued call of scrape_capterra_sync when it is free, and *)
(* the call sets a Selenium driver up, loads, and quits the driver in the  *)
(* finally of _load_all_capterra_reviews_selenium.                         *)
(***************************************************************************)
\* v4.py:515 os.cpu_count() or 1
CpuCounts == {1, 2}

Min2(a, b) == IF a <= b THEN a ELSE b

\* v4.py:515 min(len(request.urls), (os.cpu_count() or 1) * 2, 4)
MaxWorkers(n, cpus) == Min2(n, Min2(cpus * 2, 4))

\* v4.py:518-522: the request has passed validation and every URL is
\* submitted: work[i] is the call for the i-th URL
InitPool ==
    /\ IdleBatch
    /\ IdleLoad
    /\ tce = IdleClick /\ ovl = IdleOverlay /\ twin = IdleTwin
    /\ v4 = IdleV4 /\ pop = IdlePop
    /\ \E n \in 1..MaxUrls, c \in CpuCounts :
        pool = [cpus |-> c, max_workers |-> MaxWorkers(n, c),
                work |-> [i \in 1..n |-> [at |-> "queued", driver |-> "none"]]]

PoolFrame ==
    UNCHANGED <<batchVars, pageVars, localVars, tce, ovl, twin, v4, pop>>

\* the calls a worker thread is busy with
Busy == {i \in DOMAIN pool.work : pool.work[i].at \in {"setup", "loading"}}

\* the calls still in the executor's queue
Queued == {i \in DOMAIN pool.work : pool.work[i].at = "queued"}

\* ThreadPoolExecutor(max_workers): a free worker takes the oldest queued
\* call (v4.py:518-521, :464)
WorkerTakes(i) ==
    /\ i \in Queued
    /\ \A j \in Queued : i <= j
    /\ Cardinality(Busy) < pool.max_workers
    /\ pool' = [pool EXCEPT !.work[i].at = "setup"]
    /\ PoolFrame

\* v4.py:393 with :128-150 setup_selenium_driver: the driver is returned; or
\* webdriver.Chrome raises and there is none; or a call after the launch
\* raises (:138, :145) and RuntimeError leaves the function with the browser
\* started and no one holding the driver.  On a failure the loader returns
\* None (:444-447) with driver still None: the finally of :449 quits nothing.
WorkerSetup(i) ==
    /\ i \in DOMAIN pool.work
    /\ pool.work[i].at = "setup"
    /\ \E o \in PrepareOutcomes :
        pool' = [pool EXCEPT !.work[i] =
                    IF o = "ok" THEN [at |-> "loading", driver |-> "open"]
                    ELSE IF o = "launch" THEN [at |-> "done", driver |-> "none"]
                    ELSE [at |-> "done", driver |-> "open"]]
    /\ PoolFrame

\* v4.py:394-449: the load, then finally: if driver: driver.quit(); the call
\* returns and the worker is free
WorkerQuits(i) ==
    /\ i \in DOMAIN pool.work
    /\ pool.work[i].at = "loading"
    /\ pool' = [pool EXCEPT !.work[i] = [at |-> "done", driver |-> "quit"]]
    /\ PoolFrame

NextPool ==
    \/ \E i \in 1..MaxUrls : WorkerTakes(i)
    \/ \E i \in 1..MaxUrls : WorkerSetup(i)
    \/ \E i \in 1..MaxUrls : WorkerQuits(i)

SpecPool == InitPool /\ [][NextPool]_vars

(***************************************************************************)
(* src/v4.py: the click loop of _load_all_capterra_reviews_selenium        *)
(* (SpecV4, FairSpecV4), from the first read of the review count (:411)    *)
(* to the statement that leaves the while True.  The page answers the      *)
(* k-th click as its plan says, by one more review or by none; when the    *)
(* plan is used up the button is gone, or disabled, or every further click *)
(* brings one more review.  The driver raises an exception other than      *)
(* TimeoutException in every iteration before the click, or in a few calls *)
(* before or after it, or never.                                           *)
(***************************************************************************)
\* the consecutive-stall threshold of the thread-pool variant (v4.py:432);
\* the 5-growths scenario of the design counts 5 + 2 = 7 activations
StallThreshold == 2

GrowthPlans == UNION {[1..n -> {"grow", "stall"}] : n \in 1..MaxActivations}

Tails == {"gone", "disabled", "endless"}

Raisers == {"never", "always"}

\* v4.py:398-399: show_more_clicks = 0 (only printed, left out),
\* consecutive_no_new_reviews_dom = 0; the page shows its first review
InitV4 ==
    /\ IdleBatch
    /\ IdleLoad
    /\ tce = IdleClick /\ ovl = IdleOverlay /\ twin = IdleTwin
    /\ pool = IdlePool /\ pop = IdlePop
    /\ \E p \in GrowthPlans, t \in Tails, r \in Raisers, f \in 0..MaxFaults :
        v4 = [pc |-> "measure", plan |-> p, tail |-> t, raises |-> r,
              faults |-> f, count |-> 1, served |-> 0,
              num_reviews_before_click_dom |-> 0,
              consecutive_no_new_reviews_dom |-> 0,
              exit |-> "none",
              trail |-> <<"none", "none">>, seen |-> <<"none", "none">>]

V4Frame ==
    UNCHANGED <<batchVars, pageVars, localVars, tce, ovl, twin, pool, pop>>

\* the page has answered every click of its plan
PlanUsedUp == v4.served >= Len(v4.plan)

\* what the next click does to the page
Answer == IF PlanUsedUp THEN "grow" ELSE v4.plan[v4.served + 1]

\* the number of review cards after one more has been added.  Past the
\* plan the loop only ever compares a read with the read before it, so the
\* count is kept up to its last step: it moves between the two highest
\* values instead of rising for ever.
Grown(count) ==
    IF count >= Len(v4.plan) + 2 THEN Len(v4.plan) + 1 ELSE count + 1

\* the last two entries of a record of activations
Push(two, x) == <<two[2], x>>

\* v4.py:411 num_reviews_before_click_dom = len(driver.find_elements(...))
V4Measure ==
    /\ v4.pc = "measure"
    /\ v4' = [v4 EXCEPT !.num_reviews_before_click_dom = v4.count,
                        !.pc = "find"]
    /\ V4Frame

\* v4.py:413-416: the wait for a visible button times out (:435 break);
\* the button is not enabled (:416 break); else on to the scroll
V4Find ==
    /\ v4.pc = "find"
    /\ v4' = IF PlanUsedUp /\ v4.tail = "gone"
             THEN [v4 EXCEPT !.pc = "done", !.exit = "timeout"]
             ELSE IF PlanUsedUp /\ v4.tail = "disabled"
             THEN [v4 EXCEPT !.pc = "done", !.exit = "disabled"]
             ELSE [v4 EXCEPT !.pc = "click"]
    /\ V4Frame

\* v4.py:418-424: scrollIntoView, the wait for a clickable button, the
\* scripted click.  A call before the click raises (:436), in every
\* iteration or this once; else the click reaches the page.
V4Click ==
    /\ v4.pc = "click"
    /\ \/ /\ v4.raises = "always"
          /\ v4' = [v4 EXCEPT !.pc = "except"]
       \/ /\ v4.raises = "never"
          /\ v4.faults > 0
          /\ v4' = [v4 EXCEPT !.pc = "except", !.faults = @ - 1]
       \/ /\ v4.raises = "never"
          /\ v4' = [v4 EXCEPT
                !.count = IF Answer = "grow" THEN Grown(@) ELSE @,
                !.served = IF PlanUsedUp THEN @ ELSE @ + 1,
                !.trail = Push(@, IF Answer = "grow" THEN "differ" ELSE "same"),
                !.pc = "after"]
    /\ V4Frame

\* v4.py:426-434: the sleep, the popups, the second read; a call of these
\* raises (:436) and the counter is left as it is; else the counter goes up
\* on an equal read, and to 0 on a different one
V4After_keeps_counter_on_growth ==
    /\ v4.pc = "after"
    /\ \/ /\ v4.faults > 0
          /\ v4' = [v4 EXCEPT !.pc = "except", !.faults = @ - 1]
       \/ /\ v4.count = v4.num_reviews_before_click_dom
          /\ v4' = [v4 EXCEPT
                !.consecutive_no_new_reviews_dom = @ + 1,
                !.seen = Push(@, "same"),
                !.pc = IF v4.consecutive_no_new_reviews_dom + 1
                            >= StallThreshold
                       THEN "done" ELSE "measure",
                !.exit = IF v4.consecutive_no_new_reviews_dom + 1
                            >= StallThreshold
                         THEN "stall" ELSE @]
       \/ /\ v4.count # v4.num_reviews_before_click_dom
          /\ v4' = [v4 EXCEPT
                !.seen = Push(@, "differ"),
                !.pc = "measure"]
    /\ V4Frame

V4After ==
    /\ v4.pc = "after"
    /\ \/ /\ v4.faults > 0
          /\ v4' = [v4 EXCEPT !.pc = "except", !.faults = @ - 1]
       \/ /\ v4.count = v4.num_reviews_before_click_dom
          /\ v4' = [v4 EXCEPT
                !.consecutive_no_new_reviews_dom = @ + 1,
                !.seen = Push(@, "same"),
                !.pc = IF v4.consecutive_no_new_reviews_dom + 1
                            >= StallThreshold
                       THEN "done" ELSE "measure",
                !.exit = IF v4.consecutive_no_new_reviews_dom + 1
                            >= StallThreshold
                         THEN "stall" ELSE @]
       \/ /\ v4.count # v4.num_reviews_before_click_dom
          /\ v4' = [v4 EXCEPT
                !.consecutive_no_new_reviews_dom = 0,
                !.seen = Push(@, "differ"),
                !.pc = "measure"]
    /\ V4Frame

\* v4.py:436-439 except Exception: the popups, a sleep, and the while True
\* goes round again
V4Except ==
    /\ v4.pc = "except"
    /\ v4' = [v4 EXCEPT !.pc = "measure"]
    /\ V4Frame

NextV4 ==
    \/ V4Measure
    \/ V4Find
    \/ V4Click
    \/ V4After
    \/ V4Except

SpecV4 == InitV4 /\ [][NextV4]_vars

\* the loop is one thread's straight-line code: a step that can be taken is
\* taken
FairSpecV4 == SpecV4 /\ WF_vars(NextV4)

(***************************************************************************)
(* attempt_to_close_popups_capterra of src/v4.py, src/all_versions/v1.py   *)
(* and src/all_versions/v7.py (SpecPopups): one call, against a page that  *)
(* has, for each close-button pattern, nothing, or a button in the main    *)
(* document, or a button in its visible iframe, with what a click on it    *)
(* does.  Window 0 is the main window; the window a click opens carries    *)
(* the number of the pattern whose button opened it.                       *)
(***************************************************************************)
Variants == {"v4", "v1", "v7"}

\* v4.py:185, v7.py:172
specific_popup_selector ==
    "div.sb.bkg-light.card.padding-medium i[data-modal-role=\"close-button\"]"

\* v4.py:118-127 and v7.py:120-127 (the same list), v1.py:139-147
POPUP_CLOSE_SELECTORS_CAPTERRA(variant) ==
    IF variant = "v1"
    THEN << "#onetrust-accept-btn-handler",
            "button[aria-label='Close' i]",
            "button[class*='modal__close' i]",
            "button[class*='CloseButton']",
            "button[aria-label*='Dismiss' i]",
            "button[title*='Dismiss' i]",
            "div[role='dialog'] button[class*='close' i]",
            "div[id^='ZN_'] button[aria-label='Close']",
            "button[id^='cookie-consent-accept']" >>
    ELSE << "#onetrust-accept-btn-handler",
            "div.sb.bkg-light.card.padding-medium i[data-modal-role=\"close-button\"][class*=\"modal-close\"]",
            "button[aria-label='Close' i]",
            "button[class*='modal__close' i]",
            "button[class*='CloseButton']",
            "button[aria-label*='Dismiss' i]",
            "button[title*='Dismiss' i]",
            "div[role='dialog'] button[class*='close' i]",
            "div[id^='ZN_'] button[aria-label='Close']",
            "button[id^='cookie-consent-accept']" >>

\* the button of a pattern is in the main document: the click fails; or it
\* succeeds and the button is still displayed, or no longer displayed, or
\* gone from the DOM (is_displayed raises), or gone with a new window opened
MainKinds ==
    {"main_fails", "main_stays", "main_closes", "main_stale", "main_opens"}

\* the button of a pattern is in the iframe: the click succeeds or fails, or
\* switch_to.frame raises, or a call made inside the frame raises
FrameKinds ==
    {"frame_closes", "frame_fails", "frame_raises_entering",
     "frame_raises_inside"}

PatternKinds == {"none"} \cup MainKinds \cup FrameKinds

PagesOfPopups == UNION {[1..n -> PatternKinds] : n \in 1..MaxPatterns}

\* v4.py:181-182, v1.py:211-213, v7.py:171: closed_any = False, the main
\* window's handle is kept; v1 has no pass for the specific popup
InitPopups ==
    /\ IdleBatch
    /\ IdleLoad
    /\ tce = IdleClick /\ ovl = IdleOverlay /\ twin = IdleTwin
    /\ pool = IdlePool /\ v4 = IdleV4
    /\ \E v \in Variants, k \in PagesOfPopups, sp \in {"none", "closes"} :
        pop = [pc |-> IF v = "v1" THEN "frames" ELSE "specific",
               variant |-> v, kinds |-> k,
               specific |-> IF v = "v1" THEN "none" ELSE sp,
               idx |-> 1, closed_any |-> FALSE, tried |-> {}, opened |-> {},
               new_handles |-> {}, attempted |-> {}, focus_window |-> 0,
               focus_frame |-> "top", back |-> "none"]

PopFrame ==
    UNCHANGED <<batchVars, pageVars, localVars, tce, ovl, twin, pool, v4>>

\* the page has a displayed iframe
HasFrame == \E i \in DOMAIN pop.kinds : pop.kinds[i] \in FrameKinds

\* for sel_idx, sel in enumerate(...): on to the next pattern, or past the
\* last one to the window handles
NextPattern(p) ==
    [p EXCEPT !.idx = @ + 1,
              !.pc = IF p.idx + 1 > Len(p.kinds) THEN "windows" ELSE "frames"]

\* v4.py:186-193, v7.py:173-181: the specific popup is looked for and
\* clicked; every exception is caught
PopSpecific ==
    /\ pop.pc = "specific"
    /\ pop' = [pop EXCEPT !.closed_any = (pop.specific = "closes"),
                          !.pc = "frames"]
    /\ PopFrame

\* v4.py:196-202, v1.py:218-223: the skip of the specific selector, then
\* the iframes are listed and the displayed one is entered.
\* v7.py:185-203: the same without a switch: the iframe's content document
\* is searched, a success goes on to the next pattern, every exception is
\* caught and the main document follows.
PopFrames ==
    /\ pop.pc = "frames"
    /\ LET sel == POPUP_CLOSE_SELECTORS_CAPTERRA(pop.variant)[pop.idx]
           kind == pop.kinds[pop.idx]
           seen == [pop EXCEPT !.tried = @ \cup {pop.idx}]
       IN  pop' =
             IF pop.variant # "v1" /\ sel = specific_popup_selector
                    /\ pop.closed_any
             THEN NextPattern(pop)
             ELSE IF pop.variant = "v7"
             THEN IF kind = "frame_closes"
                  THEN NextPattern([seen EXCEPT !.closed_any = TRUE])
                  ELSE [seen EXCEPT !.pc = "main"]
             ELSE IF ~HasFrame \/ kind = "frame_raises_entering"
             THEN [seen EXCEPT !.pc = "main"]
             ELSE [seen EXCEPT !.focus_frame = "frame", !.pc = "inframe"]
    /\ PopFrame

\* v4.py:203-212, v1.py:224-232: inside the frame the selector is looked
\* up and the first displayed, enabled button clicked; then, and in the
\* except as well, driver.switch_to.default_content(); a success goes on
\* to the next pattern
PopInFrame_stays_in_frame_on_exception ==
    /\ pop.pc = "inframe"
    /\ LET kind == pop.kinds[pop.idx]
           out  == [pop EXCEPT !.focus_frame = "top"]
       IN  pop' =
             IF kind = "frame_closes"
             THEN NextPattern([out EXCEPT !.closed_any = TRUE])
             ELSE IF kind = "frame_raises_inside"
             THEN [pop EXCEPT !.pc = "main"]
             ELSE [out EXCEPT !.pc = "main"]
    /\ PopFrame

PopInFrame ==
    /\ pop.pc = "inframe"
    /\ LET kind == pop.kinds[pop.idx]
           out  == [pop EXCEPT !.focus_frame = "top"]
       IN  pop' =
             IF kind = "frame_closes"
             THEN NextPattern([out EXCEPT !.closed_any = TRUE])
             ELSE [out EXCEPT !.pc = "main"]
    /\ PopFrame

\* v4.py:214-223, v1.py:235-245: the selector is looked up in the main
\* document; no match: continue; the first displayed, enabled button is
\* clicked; after a success, if the first match is no longer displayed the
\* break leaves the loop over the patterns; is_displayed raising on a
\* button that is gone is caught and the next pattern follows.
\* v7.py:205-212: the same without that break.
PopMain ==
    /\ pop.pc = "main"
    /\ LET kind    == pop.kinds[pop.idx]
           clicked_ == [pop EXCEPT !.closed_any = TRUE,
                            !.opened = IF kind = "main_opens"
                                       THEN @ \cup {pop.idx} ELSE @]
       IN  pop' =
             IF kind \notin MainKinds \/ kind = "main_fails"
             THEN NextPattern(pop)
             ELSE IF pop.variant # "v7" /\ kind \in {"main_closes", "main_opens"}
             THEN [clicked_ EXCEPT !.pc = "windows"]
             ELSE NextPattern(clicked_)
    /\ PopFrame

\* v4.py:225-228, v1.py:247-249, v7.py:215-217: the handles other than the
\* main window's, if there are any
PopWindows ==
    /\ pop.pc = "windows"
    /\ pop' = [pop EXCEPT !.new_handles = pop.opened,
                          !.pc = IF pop.opened = {} THEN "returned"
                                 ELSE "closing"]
    /\ PopFrame

\* v4.py:229-231, v1.py:250-253, v7.py:219-221: try: switch to the handle,
\* close it; except: pass.  The switch raises, or the close raises, or the
\* window is closed.
PopCloseWindow(h) ==
    /\ pop.pc = "closing"
    /\ h \in pop.new_handles \ pop.attempted
    /\ \E o \in {"switch_raises", "close_raises", "closed"} :
        pop' = [pop EXCEPT
                 !.attempted = @ \cup {h},
                 !.focus_window = IF o = "switch_raises" THEN @ ELSE h,
                 !.opened = IF o = "closed" THEN @ \ {h} ELSE @]
    /\ PopFrame

\* v4.py:232, v1.py:254: driver.switch_to.window(main_window), outside any
\* try.  v7.py:222-225: the same inside try ... except Exception: pass.
PopSwitchBack ==
    /\ pop.pc = "closing"
    /\ pop.new_handles \subseteq pop.attempted
    /\ \E o \in {"ok", "raised"} :
        pop' = [pop EXCEPT
                 !.back = o,
                 !.focus_window = IF o = "ok" THEN 0 ELSE @,
                 !.pc = IF o = "raised" /\ pop.variant # "v7"
                        THEN "raised" ELSE "returned"]
    /\ PopFrame

NextPopups ==
    \/ PopSpecific
    \/ PopFrames
    \/ PopInFrame
    \/ PopMain
    \/ PopWindows
    \/ \E h \in 1..MaxPatterns : PopCloseWindow(h)
    \/ PopSwitchBack

SpecPopups == InitPopups /\ [][NextPopups]_vars

(***************************************************************************)
(* Claims about the endpoint (SpecBatch).                                  *)
(***************************************************************************)
RequestedUrls == {request.urls[k] : k \in 1..Len(request.urls)}

\* the endpoint has finished, one way or another
EndpointOver == epc \in {"rejected", "returned", "crashed"}

\* the last task created for the url of task i (a later duplicate overwrites)
LastTaskFor(i) == \A j \in TaskIds : tasks[j].url = tasks[i].url => j <= i

OpenSessions == Cardinality({i \in DOMAIN browser : browser[i] = "running"})

\* a sibling variant's pool size (playwright_version.py:421); src/app has none
ConcurrencyLimit == 2

\* C1: when a task of the batch raised, the endpoint still returns the map:
\* the raising target has a status:error entry, every other target the
\* outcome its own task produced.
C1_IsolationClaim ==
    (EndpointOver /\ tasks # <<>>) =>
        /\ response.kind = "map"
        /\ \A i \in TaskIds :
            /\ tasks[i].url \in DOMAIN results
            /\ LastTaskFor(i) =>
                IF tasks[i].raised
                THEN results[tasks[i].url].status = "error"
                ELSE results[tasks[i].url] = tasks[i].entry

\* C2: a returned map has exactly the requested URL strings as its keys,
\* valid or invalid, whatever the targets' outcomes.
C2_KeysAreRequestedUrls ==
    response.kind = "map" => DOMAIN results = RequestedUrls

C2_Witness ==
    /\ response.kind = "map"
    /\ Cardinality(DOMAIN results) = 3
    /\ Len(tasks) = 2
    /\ \E i \in TaskIds : tasks[i].entry.status = "error"
    /\ \E i \in TaskIds : tasks[i].entry.status = "success"

\* C3: a URL lacking "capterra.com/p/" or "/reviews" gets its status:error
\* entry during validation, and no task and no browser is ever created for
\* it: there is one task per well-formed list element and no other.
C3_WellFormed(u) ==
    Contains(u, <<"capterra.com", "/p/">>) /\ Contains(u, <<"/reviews">>)

C3_InvalidNeverScheduled ==
    /\ \A i \in TaskIds : C3_WellFormed(tasks[i].url)
    /\ DOMAIN browser = DOMAIN tasks
    /\ epc \in {"start", "rejected"} => tasks = <<>>
    /\ epc \in {"gather", "returned", "crashed"} =>
        /\ Len(tasks) = Cardinality({k \in 1..Len(request.urls) :
                                        C3_WellFormed(request.urls[k])})
        /\ \A u \in RequestedUrls :
            ~C3_WellFormed(u) => u \in DOMAIN results /\ results[u].status = "error"

C3_Witness ==
    /\ Len(request.urls) = 3
    /\ Cardinality({k \in 1..3 : ~C3_WellFormed(request.urls[k])}) = 1
    /\ response.kind = "map"
    /\ Cardinality(DOMAIN results) = 3
    /\ Len(tasks) = 2
    /\ \A i \in TaskIds : browser[i] = "quit"

\* C4: an empty URL list, or a start date after the end date, rejects the
\* whole request with HTTP 400 and no result map; no rejected request has
\* created a task or a browser.
C4_StartAfterEnd ==
    /\ Truthy(request.start_date_str) /\ ParsesAsDate(request.start_date_str)
    /\ Truthy(request.end_date_str) /\ ParsesAsDate(request.end_date_str)
    /\ \/ request.start_date_str.text[1] > request.end_date_str.text[1]
       \/ /\ request.start_date_str.text[1] = request.end_date_str.text[1]
          /\ request.start_date_str.text[2] > request.end_date_str.text[2]
       \/ /\ request.start_date_str.text[1] = request.end_date_str.text[1]
          /\ request.start_date_str.text[2] = request.end_date_str.text[2]
          /\ request.start_date_str.text[3] > request.end_date_str.text[3]

C4_RejectsWholeRequest ==
    /\ (epc # "start" /\ (request.urls = <<>> \/ C4_StartAfterEnd)) =>
            response.kind = "http400"
    /\ response.kind = "http400" =>
            tasks = <<>> /\ browser = <<>> /\ DOMAIN results = {}

C4_Witness ==
    /\ response.kind = "http400"
    /\ C4_StartAfterEnd
    /\ \E k \in 1..Len(request.urls) : C3_WellFormed(request.urls[k])

\* C5: at every instant of a batch the number of open Browser Sessions is at
\* most the concurrency limit.
C5_SessionsWithinLimit ==
    OpenSessions <= ConcurrencyLimit

\* C15: a target whose controller exceeds its wall-clock budget is aborted
\* and its Browser Session disposed: it never goes on to deliver a page, so
\* its outcome is neither success nor no_reviews_found; its siblings keep
\* their own outcomes.
C15_OverBudgetIsAborted ==
    \A i \in TaskIds :
        tasks[i].overdue =>
            /\ tasks[i].pc # "finally" \/ tasks[i].page_source = NoPage
            /\ tasks[i].pc = "done" =>
                    tasks[i].raised \/ tasks[i].entry.status = "error"

\* C16: each target run creates at most one Browser Session, which only
\* that run uses and disposes; no session is shared with or reused by
\* another target, and none is started again after a failed setup.
C16_OneSessionPerTarget ==
    [][\A i \in DOMAIN tasks \cap DOMAIN tasks' :
        /\ browser'[i] # browser[i] =>
            /\ \/ /\ browser[i] = "none"
                   /\ browser'[i] = "running"
                   /\ tasks[i].pc = "created"
               \/ /\ browser[i] = "running"
                   /\ browser'[i] = "quit"
                   /\ tasks[i].driver
            /\ \A j \in DOMAIN tasks \ {i} :
                    browser'[j] = browser[j] /\ tasks'[j] = tasks[j]
        /\ (tasks[i].pc = "created" /\ <<tasks[i], browser[i]>>' # <<tasks[i], browser[i]>>) =>
                tasks'[i].pc # "created"
        /\ tasks[i].pc # "created" => tasks'[i].pc # "created"
        /\ tasks'[i].driver => browser'[i] = "running"
      ]_vars

C16_Witness ==
    /\ Len(tasks) = 3
    /\ tasks[1].url = tasks[2].url
    /\ tasks[1].pc = "done" /\ browser[1] = "running"
    /\ tasks[2].pc = "done" /\ browser[2] = "quit"
    /\ tasks[3].pc = "done" /\ browser[3] = "none"

(***************************************************************************)
(* Claims about the load controller (SpecLoad, FairSpecLoad).              *)
(***************************************************************************)
\* C6: in a run that acquired a driver, driver.quit() is invoked exactly
\* once, before the return, on every exit path.
C6_QuitExactlyOnce ==
    /\ quit_calls <= 1
    /\ (lpc = "returned" /\ driver) => quit_calls = 1
    /\ quit_calls = 1 => lpc = "returned" /\ driver

C6_Witness ==
    /\ lpc = "returned"
    /\ driver
    /\ quit_calls = 1
    /\ show_more_clicks >= 1
    /\ page_source_result = NoSnapshot

\* C7: every browser process started for the target is disposed by the time
\* the controller returns, also when session setup fails after the launch.
C7_BrowserDisposedOnReturn ==
    lpc = "returned" => chrome # "running"

\* C8: for every page behaviour the run terminates: each poll ends within
\* its budget, the click loop within its range, and the function returns.
C8_LoadTerminates ==
    /\ [](elapsed < PollTimeout + 35 /\ click_num <= LoopBound)
    /\ <>(lpc = "returned")

C8_Witness ==
    /\ lpc = "returned"
    /\ clean
    /\ page.grows >= 1
    /\ show_more_clicks = page.grows + 1

\* C9 as claimed: in either strategy show_more_clicks never exceeds 250.
C9_HardCeiling ==
    show_more_clicks <= 250

\* C9: without a declared total show_more_clicks never exceeds 250; with a
\* declared total T its only bound is num_clicks_needed = ceil((T - n0) / 25).
C9_CeilingInFallbackOnly ==
    /\ ~Declared => show_more_clicks <= 250
    /\ Declared => show_more_clicks <= num_clicks_needed

C9_Witness ==
    /\ lpc = "returned"
    /\ ~Declared
    /\ show_more_clicks = 250
    /\ page_source_result = page.first + 250 * page.step

\* the run of the scenario: no declared total, the button stays, no call
\* fails, every growth is rendered within the wait
C10_Scenario ==
    /\ lpc = "returned"
    /\ clean
    /\ page.container
    /\ page.button = "stays"
    /\ ~Declared
    /\ page.grows < 250

\* C10 as claimed: k growing activations are followed by as many stalled
\* ones as the stall threshold (5 growths: exactly 7 activations).
C10_GrowthsPlusThreshold ==
    C10_Scenario =>
        /\ show_more_clicks = page.grows + StallThreshold
        /\ page_source_result = PageFinal(page)

\* C10: with no declared total the controller performs exactly k + 1
\* activations, the loop breaking at the first activation without growth,
\* and the snapshot holds every loaded card (5 growths of 10: 6 activations,
\* 50 cards); with a declared total it performs at most k + 1 and at most
\* num_clicks_needed.
C10_GrowthsPlusOne ==
    /\ C10_Scenario =>
        /\ show_more_clicks = page.grows + 1
        /\ page_source_result = PageFinal(page)
    /\ (lpc = "returned" /\ clean /\ Declared) =>
        /\ show_more_clicks <= page.grows + 1
        /\ show_more_clicks <= num_clicks_needed

C10_Witness ==
    /\ C10_Scenario
    /\ page.grows = 5 /\ page.step = 10 /\ page.first = 0
    /\ show_more_clicks = 6
    /\ page_source_result = 50

(***************************************************************************)
(* Claims about one target: the loader and the entry the service makes of  *)
(* its return value (SpecScrape).                                          *)
(***************************************************************************)
\* the coroutine has returned its dict
ScrapeReturned == tasks # <<>> /\ ~tasks[1].raised

\* C11: when the review container is not found after navigation, the run
\* performs no trigger activation, returns the document snapshot taken at
\* that moment, and the target's entry is not status:error.
C11_NoContainerIsNoFailure ==
    /\ ~page.container => show_more_clicks = 0 /\ click_num = 0
    /\ (lpc = "returned" /\ ~page.container /\ clean) =>
        /\ page_source_result # NoSnapshot
        /\ page_source_result = dom
        /\ ScrapeReturned => tasks[1].entry.status = "no_reviews_found"

C11_Witness ==
    /\ lpc = "returned"
    /\ ~page.container
    /\ clean
    /\ quit_calls = 1
    /\ ScrapeReturned
    /\ tasks[1].entry.status = "no_reviews_found"

\* C12: when the Show-more button is absent at the first check of the click
\* loop, the run ends with show_more_clicks = 0, the snapshot is still
\* captured and returned, and no failure is reported for the target.
C12_ButtonAbsentAtStart ==
    page.container /\ page.button = "leaves" /\ page.grows = 0

C12_AbsentTriggerIsExhausted ==
    /\ C12_ButtonAbsentAtStart => show_more_clicks = 0
    /\ (lpc = "returned" /\ clean /\ C12_ButtonAbsentAtStart) =>
        /\ page_source_result = page.first
        /\ ScrapeReturned => tasks[1].entry.status # "error"

C12_Witness ==
    /\ lpc = "returned"
    /\ clean
    /\ C12_ButtonAbsentAtStart
    /\ ~Declared
    /\ page.first = 25
    /\ page_source_result = 25
    /\ ScrapeReturned
    /\ tasks[1].entry.status = "success"

\* C13: the counts measured immediately before each trigger activation form
\* a non-decreasing sequence within one run, stale and empty reads included
\* (current_review_count_dom holds the latest of them).
C13_PreClickCountsNonDecreasing ==
    [][current_review_count_dom' >= current_review_count_dom]_vars

\* the driver calls made by the loader's own body, where a failure is an
\* exception raised in _load_all_capterra_reviews_driverless: outside the
\* click loop's try block, and (find_button) inside it
OuterCalls == {"start", "navigate", "container", "initial_count", "after_loop"}

InnerCalls == {"find_button"}

\* the loader returned no page content and the service made an error entry
C14_NoContentIsErrorEntry ==
    (tasks # <<>> /\ page_source_result = NoSnapshot) =>
        /\ ~tasks[1].raised
        /\ tasks[1].entry.status = "error"
        /\ tasks[1].entry.message # ""

\* C14 as claimed: any exception raised before the snapshot is captured
\* takes the run to its return with no page content, and the service makes
\* a status:error entry of it.
C14_EveryErrorYieldsNoContent ==
    /\ [][(lpc \in OuterCalls \cup InnerCalls /\ faults' < faults) =>
            (lpc' = "finally" /\ page_source_result' = NoSnapshot)]_vars
    /\ []C14_NoContentIsErrorEntry

\* C14: a setup failure, a navigation failure and any exception raised
\* outside the click loop's try block take the run to its return with no
\* page content, of which the service makes a status:error entry with a
\* message; an exception raised inside that try block only breaks the loop,
\* and the snapshot is still captured.
C14_OuterErrorsYieldNoContent ==
    /\ [][(lpc \in OuterCalls /\ faults' < faults) =>
            (lpc' = "finally" /\ page_source_result' = NoSnapshot)]_vars
    /\ [][(lpc \in InnerCalls /\ faults' < faults) => lpc' = "after_loop"]_vars
    /\ [](page_source_result # NoSnapshot => driver /\ overlay_calls >= 1)
    /\ []C14_NoContentIsErrorEntry

C14_Witness ==
    /\ lpc = "returned"
    /\ driver
    /\ overlay_calls = 0
    /\ quit_calls = 1
    /\ page_source_result = NoSnapshot
    /\ tasks # <<>>
    /\ tasks[1].entry.status = "error"

\* C17: for a target whose coroutine returns, the status is error exactly
\* when the loader returned no page content, success exactly when content
\* was returned and at least one review extracted, and no_reviews_found
\* exactly when content was returned and no review extracted.
C17_StatusFollowsContent ==
    ScrapeReturned =>
        /\ tasks[1].entry.status \in {"error", "success", "no_reviews_found"}
        /\ tasks[1].entry.status = "error" <=> page_source_result = NoSnapshot
        /\ tasks[1].entry.status = "success" <=>
                (page_source_result # NoSnapshot /\ tasks[1].entry.reviews >= 1)
        /\ tasks[1].entry.status = "no_reviews_found" <=>
                (page_source_result # NoSnapshot /\ tasks[1].entry.reviews = 0)

C17_Witness ==
    /\ ScrapeReturned
    /\ show_more_clicks = 2
    /\ page_source_result = 75
    /\ tasks[1].entry.status = "no_reviews_found"

\* C18: with a declared total, the click loop is never left directly after
\* a step that reported growth while the DOM count is still below the
\* declared total and fewer than 250 activations have been made (click_num
\* counts the steps that reported growth; the loop head follows such a step).
C18_LoopGoesOnWhileBelowTotal ==
    [][(/\ lpc = "loop"
        /\ click_num >= 1
        /\ Declared
        /\ dom < total_reviews_on_site
        /\ show_more_clicks < 250) => lpc' # "after_loop"]_vars

\* C19: a step is reported as growing only when the page has added cards
\* on that activation, never merely because a stale or empty pre-click read
\* made the baseline too low (the page grows on its first page.grows
\* activations and on no later one).
C19_GrowthOnlyWhenPageGrew ==
    [][(lpc = "poll" /\ click_num' = click_num + 1) =>
            show_more_clicks <= page.grows]_vars

\* C20 as claimed: a failed trigger activation (try_click_element returning
\* False) that does not follow another failed one does not end the click
\* loop.
C20_SingleFailureContinues ==
    [][(lpc = "click" /\ clicked' = "False" /\ clicked # "False") =>
            lpc' # "after_loop"]_vars

\* C20: the first failed trigger activation ends the click loop: the
\* activation is not counted, no second attempt follows, and the snapshot
\* is captured next.
C20_FirstFailureEndsLoop ==
    /\ [][(lpc = "click" /\ clicked' = "False") =>
            /\ clicked # "False"
            /\ lpc' = "after_loop"
            /\ show_more_clicks' = show_more_clicks]_vars
    /\ [](clicked = "False" => lpc \in {"after_loop", "finally", "returned"})
    /\ [][(lpc = "after_loop" /\ clicked = "False" /\ lpc' = "finally" /\ faults' = faults) =>
            page_source_result' = dom]_vars

C20_Witness ==
    /\ lpc = "returned"
    /\ clicked = "False"
    /\ page.grows = 2
    /\ show_more_clicks = 1
    /\ page_source_result = 50

\* C21: a trigger control that is present but disabled is never activated:
\* show_more_clicks is not incremented for it.
C21_DisabledNeverActivated ==
    [][(lpc = "click" /\ ButtonDisabled) => show_more_clicks' = show_more_clicks]_vars

\* C22: async_wait_until_reviews_load returns True exactly when a measurement
\* of the card count exceeds initial_review_count, in the poll or in the one
\* final measurement after the budget: a True return has measured more cards
\* than the baseline, a measurement that succeeds and sees more cards
\* returns True at once, and a False return comes after the budget, from a
\* final measurement that failed or saw no more cards than the baseline.
C22_TrueIffMeasuredAboveBaseline ==
    [][/\ (click_num' = click_num + 1)
            => /\ lpc = "poll"
               /\ faults' = faults
               /\ dom > current_review_count_dom
       /\ (lpc = "poll" /\ lpc' = "poll_loader" /\ faults' = faults)
            => dom <= current_review_count_dom
       /\ (lpc = "poll" /\ lpc' = "after_loop")
            => /\ elapsed >= PollTimeout
               /\ (faults' < faults \/ dom <= current_review_count_dom)]_vars

\* the budget has elapsed, and the cards of the last click have come in time
\* for the final measurement only
C22_Witness ==
    /\ lpc = "poll"
    /\ elapsed >= PollTimeout
    /\ show_more_clicks = 1
    /\ dom > current_review_count_dom
    /\ faults = MaxFaults

\* the wait is in progress
Waiting == lpc \in {"poll", "poll_loader"}

Retryable(a) ==
    \/ a.before \in {"timeout", "js"}
    \/ a.before = "ok" /\ a.click \in {"timeout", "js"}

\* the click script of the pass is run and returns
Succeeds(a) == a.before = "ok" /\ a.click = "returns"

\* the passes that come to run their click script, among the first k
ClicksThrough(k) == Cardinality({j \in 1..k : tce.plan[j].before = "ok"})

\* the passes that end the call: all but those that end retryably
Stops == {j \in 1..JsClickAttempts : ~Retryable(tce.plan[j])}

FirstStop == CHOOSE j \in Stops : \A i \in Stops : j <= i

\* C25: try_click_element(always_js_click=True) never raises, runs the click
\* script at most 3 times, goes to a next pass only after passes that ended
\* in a script timeout or a JavascriptException, returns True at the first
\* pass whose click script returns, returns False at once at the first pass
\* that meets a stale or detached element or an unknown error, and returns
\* False after a third pass that failed.
C25_ClickNeverRaisesAndRetriesThrice ==
    /\ ~tce.raised
    /\ tce.scripted_clicks <= 3
    /\ tce.pc \in {"attempt", "done"} =>
            \A j \in 1..tce.attempt : Retryable(tce.plan[j])
    /\ tce.pc = "done" =>
        IF tce.element # "ok"
        THEN tce.result = "False" /\ tce.scripted_clicks = 0
        ELSE IF Stops = {}
        THEN tce.result = "False" /\ tce.scripted_clicks = ClicksThrough(JsClickAttempts)
        ELSE /\ tce.result = IF Succeeds(tce.plan[FirstStop]) THEN "True" ELSE "False"
             /\ tce.scripted_clicks = ClicksThrough(FirstStop)
             /\ tce.attempt = FirstStop - 1

\* two passes that timed out, then a click script that returns
C25_Witness ==
    /\ tce.pc = "done"
    /\ tce.result = "True"
    /\ tce.attempt = 2
    /\ tce.scripted_clicks = 3

\* the calls of handle_specific_overlay_popup that have returned
CallsDone == 1..Len(ovl.results)

\* in call k the lookup gives the buttons of an open dialog and one of them
\* takes the click
ClosesOverlay(k) ==
    /\ ovl.plans[k].lookup = "found"
    /\ ovl.opened[k]
    /\ \E b \in 1..ovl.buttons : ovl.plans[k].btn[b] = "clicked"

\* C26: handle_specific_overlay_popup never raises; whatever the driver does
\* (nothing matches, the lookup times out or fails otherwise, an element is
\* stale, a click fails) the call returns a boolean, and it returns True
\* exactly when one close button took the click.
C26_OverlayHandlerNeverRaises ==
    /\ ~ovl.raised
    /\ \A k \in CallsDone :
        /\ ovl.results[k] \in BOOLEAN
        /\ ovl.clicks[k] <= 1
        /\ ovl.results[k] <=> ovl.clicks[k] = 1
        /\ ovl.results[k] <=> ClosesOverlay(k)

\* the first button fails to take the click and the second one takes it
C26_Witness ==
    /\ 1 \in CallsDone
    /\ ovl.buttons = 2
    /\ ovl.plans[1].btn[1] = "click_fails"
    /\ ovl.results[1]
    /\ ovl.clicks[1] = 1

\* the second of the two calls has clicked nothing, has left the page as it
\* was, has raised nothing and has returned False
SecondCallNoOp ==
    /\ ~ovl.raised
    /\ ovl.results[2] = FALSE
    /\ ovl.clicks[2] = 0
    /\ ovl.open = ovl.opened[2]

\* C27 as claimed: of two calls in a row, with no overlay appearing in
\* between, the second clicks nothing, changes nothing, raises nothing and
\* returns False.
C27_SecondCallIsNoOp ==
    2 \in CallsDone => SecondCallNoOp

\* C27, amended: of two calls in a row, with no overlay open when the second
\* one starts (the first call closed it, or none was open), the second
\* clicks nothing, changes nothing, raises nothing and returns False.
C27_SecondCallIsNoOpOnceClosed ==
    /\ (2 \in CallsDone /\ ~ovl.opened[2]) => SecondCallNoOp
    /\ (1 \in CallsDone /\ (ovl.results[1] \/ ~ovl.opened[1]) /\ Len(ovl.opened) >= 2)
            => ~ovl.opened[2]

\* the first call closed the dialog; the second found its buttons hidden
C27_Witness ==
    /\ 2 \in CallsDone
    /\ ovl.results[1]
    /\ ovl.plans[2].lookup = "found"
    /\ ovl.plans[2].btn[1] = "clicked"
    /\ ~ovl.results[2]

\* C28: in one run the interference handler is invoked once between the
\* settle delay and the container check, and after that only right after a
\* step that reported growth and whose activation count is a positive
\* multiple of 7: never after a step that stalled or failed.
C28_HandlerOnceThenEverySeventhGrowth ==
    [][/\ overlay_calls' # overlay_calls
            => /\ overlay_calls' = overlay_calls + 1
               /\ \/ /\ lpc = "overlay" /\ lpc' = "container"
                     /\ overlay_calls = 0
                  \/ /\ lpc = "poll" /\ lpc' = "loop"
                     /\ click_num' = click_num + 1
                     /\ show_more_clicks > 0
                     /\ show_more_clicks % 7 = 0
       /\ lpc' = "container" => overlay_calls' = 1
       /\ overlay_calls' >= 1 => overlay_calls' = 1 + (click_num' \div 7)]_vars

\* seven steps that grew: the handler has run a second time
C28_Witness ==
    /\ overlay_calls = 2
    /\ click_num = 7
    /\ show_more_clicks = 7

\* C29: within one target the steps follow one another: a trigger activation
\* is started only when no wait of an earlier activation of the same session
\* is in progress, whatever the tasks of the other targets do in between.
C29_StepsStrictlySequential ==
    [][\A i \in TaskIds :
        /\ tasks'[i].clicks # tasks[i].clicks
            => /\ tasks[i].step = "idle"
               /\ tasks'[i].step = "polling"
               /\ tasks'[i].clicks = tasks[i].clicks + 1
        /\ (tasks[i].step = "polling" /\ tasks'[i].step = "polling")
            => tasks'[i].clicks = tasks[i].clicks]_vars

\* both targets in the wait of a later activation
C29_Witness ==
    /\ Len(tasks) = 2
    /\ tasks[1].step = "polling" /\ tasks[1].clicks = 2
    /\ tasks[2].step = "polling" /\ tasks[2].clicks = 2

\* ceil(x / d) for d > 0, and 0 for x <= 0
CeilDiv(x, d) == IF x <= 0 THEN 0 ELSE ((x - 1) \div d) + 1

\* C30: with a declared total T > 0 and n0 cards in the DOM at the start, the
\* activations never number more than ceil((T - n0) / 25), there is none when
\* n0 >= T, and an iteration whose pre-click count is already T or more goes
\* on to no activation.
C30_DeclaredActivationsBounded ==
    Declared =>
        /\ show_more_clicks <= CeilDiv(total_reviews_on_site - page.first, 25)
        /\ page.first >= total_reviews_on_site => show_more_clicks = 0
        /\ lpc \in {"find_button", "click"}
            => current_review_count_dom < total_reviews_on_site

\* batches of 50: the declared total is reached with iterations to spare,
\* and the loop has stopped on its pre-click count
C30_Witness ==
    /\ Declared
    /\ lpc = "returned"
    /\ clean
    /\ show_more_clicks >= 1
    /\ show_more_clicks < num_clicks_needed
    /\ current_review_count_dom >= total_reviews_on_site

\* C31: when the endpoint returns its result map every task of the request
\* has finished and every browser launched for it has had quit() invoked: no
\* session outlives the response.
C31_NoSessionOutlivesResponse ==
    response.kind = "map" =>
        /\ AllTasksDone
        /\ \A i \in DOMAIN browser : browser[i] # "running"

\* C32: a request (its dates accepted) whose URL list is non-empty and holds
\* no valid URL is answered with the map of status:error entries, one per
\* distinct URL, with no task and no browser; and no request at all is
\* rejected with "No valid Capterra URLs provided".
C32_AllInvalidReturnsErrorMap ==
    /\ (epc # "start" /\ DatesAccepted(request) /\ request.urls # <<>>
         /\ \A k \in 1..Len(request.urls) : ~C3_WellFormed(request.urls[k]))
        => /\ response.kind = "map"
           /\ DOMAIN results = RequestedUrls
           /\ \A u \in RequestedUrls : results[u].status = "error"
           /\ tasks = <<>> /\ browser = <<>>
    /\ response.detail # "No valid Capterra URLs provided"

\* three invalid URLs, two of them the same: two entries
C32_Witness ==
    /\ response.kind = "map"
    /\ tasks = <<>>
    /\ Len(request.urls) = 3
    /\ Cardinality(DOMAIN results) = 2
    /\ \A u \in RequestedUrls : ~C3_WellFormed(u)

\* what target i came to: the page behaviour as the endpoint sees it
Outcome(t) == [url |-> t.url, raised |-> t.raised, entry |-> t.entry]

\* the targets of the second request behave as those of the first did
SameBehaviour ==
    /\ Len(tasks) = Len(twin.tasks)
    /\ \A i \in TaskIds : Outcome(tasks[i]) = Outcome(twin.tasks[i])

\* C33: for one URL list and one behaviour of the pages, the endpoint's
\* answer is the same whatever well-formed, non-inverted date bounds the
\* request carries, none included: the same result map, entry by entry.
C33_DatesDoNotChangeTheMap ==
    (twin.phase = "second" /\ EndpointOver /\ DatesAccepted(request)
     /\ twin.response.kind # "http400" /\ SameBehaviour)
        => /\ response = twin.response
           /\ results = twin.results

\* the list was sent without bounds and again with a start and an end date;
\* both times the target delivered its reviews
C33_Witness ==
    /\ twin.phase = "second"
    /\ response.kind = "map"
    /\ Truthy(request.start_date_str) /\ Truthy(request.end_date_str)
    /\ SameBehaviour
    /\ \E i \in TaskIds : tasks[i].entry.status = "success"
    /\ results = twin.results

\* the Selenium drivers now open: started and not quit
OpenDrivers == {i \in DOMAIN pool.work : pool.work[i].driver = "open"}

\* C34: in the thread-pool variant at most min(number of URLs, 2 x CPU
\* count, 4) Selenium drivers are open at any instant: a queued target's
\* driver is created only once a running target's worker has finished and
\* quit its driver.
C34_DriversWithinPoolSize ==
    Cardinality(OpenDrivers) <= MaxWorkers(Len(pool.work), pool.cpus)

(***************************************************************************)
(* Claims about the click loop of the thread-pool variant (SpecV4).        *)
(***************************************************************************)
\* how many of the last activations whose second read was made read the
\* same count as before the click
TrailingSame(two) ==
    IF two[2] # "same" THEN 0 ELSE IF two[1] # "same" THEN 1 ELSE 2

\* C35, as stated: the v4 click loop ends on stall only when the last two
\* activations both left the review count unchanged, a single stalled
\* activation next to one that brought reviews never ends the run
C35_StallEndNeedsTwoUnchangedActivations ==
    v4.exit = "stall" => v4.trail = <<"same", "same">>

\* C35, amended: the v4 click loop ends on stall only when the last two
\* activations whose count was read after the click both read the count
\* of before the click, and the counter is the number of such activations
\* since the last one that read a different count (which sets it to 0); an
\* activation whose read after the click raised leaves the counter alone
C35_StallEndNeedsTwoEqualReads ==
    /\ v4.exit = "stall" => v4.seen = <<"same", "same">>
    /\ v4.consecutive_no_new_reviews_dom = TrailingSame(v4.seen)
    /\ v4.consecutive_no_new_reviews_dom >= StallThreshold => v4.exit = "stall"

\* a stalled click between two that brought reviews did not end the run,
\* the two stalled clicks after them did
C35_Witness ==
    /\ v4.exit = "stall"
    /\ v4.plan = <<"grow", "stall", "grow", "stall", "stall">>
    /\ v4.served = 5
    /\ v4.seen = <<"same", "same">>

\* C36: for every page behaviour the while True loop of the v4 loader is
\* left in the end
C36_ClickLoopTerminates == <>(v4.pc = "done")

(***************************************************************************)
(* Claims about the multi-pattern popup handler (SpecPopups).              *)
(***************************************************************************)
\* C37: when the handler of v4.py or v1.py returns, every pattern of the
\* list has been looked up, whichever earlier patterns were dismissed
C37_EveryPatternTried ==
    pop.variant \in {"v4", "v1"} /\ pop.pc = "returned" =>
        pop.tried = DOMAIN pop.kinds

\* C38, as stated: when the handler of v4.py or v7.py returns, every
\* secondary window a click opened has had its close attempted, and the
\* focus is on the main window and its top-level document
C38_WindowsClosedFocusRestored ==
    pop.variant \in {"v4", "v7"} /\ pop.pc = "returned" =>
        /\ pop.opened \subseteq pop.attempted
        /\ pop.focus_window = 0
        /\ pop.focus_frame = "top"

\* C38, amended: when the handler of v4.py or v7.py returns, every
\* secondary window a click opened has had its close attempted and the
\* focus is on a top-level document; it is on the main window unless, in
\* v7, the switch back to the main window itself raised
C38_WindowsClosedFocusRestoredUnlessSwitchBackRaised ==
    pop.variant \in {"v4", "v7"} /\ pop.pc = "returned" =>
        /\ pop.opened \subseteq pop.attempted
        /\ pop.focus_frame = "top"
        /\ \/ pop.focus_window = 0
           \/ pop.variant = "v7" /\ pop.back = "raised"
        /\ pop.variant = "v4" /\ pop.new_handles # {} => pop.back = "ok"

\* v4 returned after a call inside the frame raised and after the close of
\* a window raised: the window's close was attempted, the focus is back
C38_Witness ==
    /\ pop.variant = "v4"
    /\ pop.pc = "returned"
    /\ pop.kinds = <<"frame_raises_inside", "main_opens">>
    /\ pop.opened = {2}
    /\ pop.attempted = {2}
    /\ pop.focus_window = 0
    /\ pop.focus_frame = "top"

====
